---- MODULE Spec2Model ----
(***************************************************************************)
(* A model of the args package (jpvetterli/args): the tokenizer, the lazy  *)
(* symbol table, the name-value extractor, the parameter table and the     *)
(* parser.  Text is modelled as TLA+ strings, read one character at a time *)
(* with SubSeq, so that quoting, escaping and symbol resolution are        *)
(* computed the way the scanner computes them.                             *)
(***************************************************************************)
EXTENDS Integers, Sequences, FiniteSets, TLC

VARIABLES
    parser,   \* the Parser object: config, params, symbols, cycle
    input,    \* the text given to the last Parse call
    err,      \* the error returned by the last Parse call
    res,      \* the result of the last direct symbol table get
    nparse    \* number of Parse calls made so far

vars == <<parser, input, err, res, nparse>>

----------------------------------------------------------------------------
(* Errors.  An error value is a record; NoErr is Go's nil error.           *)

NoErr == [kind |-> "nil", arg |-> "", on |-> ""]

Err(k, a) == [kind |-> k, arg |-> a, on |-> ""]

cycleError(s) == Err("cyclical symbol definition detected", s)

\* decorate keeps the error kind and records the parameter name it is about
decorate(e, name) ==
    [e EXCEPT !.on = IF Len(name) = 0 THEN "anonymous parameter" ELSE name]

----------------------------------------------------------------------------
(* Characters.                                                             *)

Ch(s, i) == SubSeq(s, i, i)

Letters == {"a", "b", "c", "d", "e", "f", "g", "h", "i", "j", "k", "l", "m",
            "n", "o", "p", "q", "r", "s", "t", "u", "v", "w", "x", "y", "z"}

Digits == {"0", "1", "2", "3", "4", "5", "6", "7", "8", "9"}

IsSpace(r) == r \in {" ", "\n", "\t"}

\* valid: letters, digits, the hyphen and the underscore
valid(r) == r \in Letters \cup Digits \cup {"-", "_"}

RECURSIVE validate(_)
validate(name) ==
    IF name = "" THEN TRUE
    ELSE valid(Ch(name, 1)) /\ validate(SubSeq(name, 2, Len(name)))

----------------------------------------------------------------------------
(* Config.                                                                 *)

SpecSymbolPrefix == "SpecSymbolPrefix"
SpecOpenQuote    == "SpecOpenQuote"
SpecCloseQuote   == "SpecCloseQuote"
SpecSeparator    == "SpecSeparator"
SpecEscape       == "SpecEscape"

OpCond    == "OpCond"
OpDump    == "OpDump"
OpImport  == "OpImport"
OpInclude == "OpInclude"
OpMacro   == "OpMacro"
OpReset   == "OpReset"
OpSkip    == "OpSkip"

\* a *Config: at is the address of the Config, by which a Config that is
\* shared is told from a copy
NewConfig ==
    [at |-> 0,
     specList |-> [SpecSymbolPrefix |-> "$", SpecOpenQuote |-> "[",
                   SpecCloseQuote |-> "]", SpecSeparator |-> "=",
                   SpecEscape |-> "\\"],
     opDict |-> [macro |-> OpMacro, cond |-> OpCond, dump |-> OpDump,
                 import |-> OpImport, include |-> OpInclude,
                 reset |-> OpReset] @@ ("--" :> OpSkip)]

\* Config.copy: a new Config, at another address, with the elements of the
\* array and the entries of the map of c
copy(c) ==
    [at |-> c.at + 1,
     specList |-> [i \in DOMAIN c.specList |-> c.specList[i]],
     opDict |-> [n \in DOMAIN c.opDict |-> c.opDict[n]]]

GetSpecial(config, which) == config.specList[which]

\* unicode.IsGraphic
IsGraphic(r) == r \notin {"\n", "\t"}

validSpecial(char) == ~valid(char) /\ IsGraphic(char) /\ ~IsSpace(char)

\* an isDuplicate that finds no character in use
isDuplicateNever(c, i, ch) == FALSE

isDuplicate(c, i, ch) ==
    \E j \in DOMAIN c.specList \ {i} : ch = c.specList[j]

\* the result of a method of Config: the Config as the call left it and the
\* text of the panic, empty when the call returned
Conf(c, panic) == [c |-> c, panic |-> panic]

SetSpecial(c, spec, ch) ==
    IF spec \notin DOMAIN c.specList THEN Conf(c, "unknown special")
    ELSE IF ~validSpecial(ch) THEN Conf(c, "not a valid special character")
    ELSE IF isDuplicate(c, spec, ch) THEN Conf(c, "already used")
    ELSE Conf([c EXCEPT !.specList[spec] = ch], "")

SetOpName(c, op, name) ==
    IF ~validate(name) THEN Conf(c, "cannot be used as a name")
    ELSE IF name \in DOMAIN c.opDict THEN Conf(c, "name already used")
    ELSE IF \A n \in DOMAIN c.opDict : c.opDict[n] # op
    THEN Conf(c, "no such operator")
    ELSE Conf([c EXCEPT !.opDict =
                  [n \in {m \in DOMAIN @ : @[m] # op} \cup {name} |->
                      IF n = name THEN op ELSE @[n]]], "")

----------------------------------------------------------------------------
(* symval and symtab.                                                      *)

\* a *symval; Nil is the nil pointer
symval(resolved, s) == [nil |-> FALSE, resolved |-> resolved, s |-> s]

Nil == [nil |-> TRUE, resolved |-> FALSE, s |-> ""]

EmptyTable == [x \in {} |-> Nil]

newSymtab == [table |-> EmptyTable, cycle |-> {}]

Delete(table, sym) == [x \in (DOMAIN table) \ {sym} |-> table[x]]

----------------------------------------------------------------------------
(* Tokenizer.                                                              *)

tokenNone   == "tokenNone"
tokenEnd    == "tokenEnd"
tokenEqual  == "tokenEqual"
tokenString == "tokenString"
tokenError  == "tokenError"
\* not a token of the code: Next panicked (called after an error or on a
\* non-empty stack)
tokenPanic  == "tokenPanic"

tsInit    == "tsInit"
tsString  == "tsString"
tsBracket == "tsBracket"
tsSymbol  == "tsSymbol"
tsPrefix  == "tsPrefix"
tsEscape  == "tsEscape"
tsEnd     == "tsEnd"
tsError   == "tsError"

\* the characters standing for an invalid UTF-8 sequence and for U+FEFF
RuneError == "?"
BOM       == "^"

top(s) == IF Len(s) = 0 THEN tsInit ELSE s[Len(s)]

push(s, state) == Append(s, state)

\* a pushIfEmpty that pushes on any stack
pushIfEmptyAlways(s, state) == push(s, state)

pushIfEmpty(s, state) == IF Len(s) = 0 THEN push(s, state) ELSE s

pop(s) == SubSeq(s, 1, Len(s) - 1)

newTokenizer(configuration) ==
    [config |-> configuration, input |-> "", pos |-> 0, resolved |-> FALSE,
     stringBuf |-> "", symBuf |-> "", stack |-> <<>>]

Reset(t, in) ==
    [t EXCEPT !.input = in, !.pos = 0, !.stringBuf = "", !.resolved = TRUE,
              !.symBuf = "", !.stack = <<>>]

\* what scan, Next and get return: the token, the *symval, the error, and
\* the tokenizer and the symbol table as the call left them
Ret(tok, sv, e, t, sy) == [tok |-> tok, sv |-> sv, err |-> e, t |-> t, sy |-> sy]

tokSymval(t) == symval(t.resolved, t.stringBuf)

\* a symbolCharacterError that takes the character as text after the prefix
symbolCharacterErrorAsText(t, sy, c) ==
    Ret(tokenNone, Nil, NoErr,
        [t EXCEPT !.stack = pushIfEmpty(pop(@), tsString),
                  !.stringBuf = @ \o GetSpecial(t.config, SpecSymbolPrefix) \o c],
        sy)

symbolCharacterError(t, sy, c) ==
    Ret(tokenError, Nil, Err("character invalid in symbol", c),
        [t EXCEPT !.stack = push(@, tsError)], sy)

\* a genericError that ends the input without an error
genericErrorAsEnd(t, sy, msg) == Ret(tokenEnd, Nil, NoErr, t, sy)

genericError(t, sy, msg) ==
    Ret(tokenError, Nil, Err(msg, ""), [t EXCEPT !.stack = push(@, tsError)], sy)

invalidCharacterError(t, sy, msg) ==
    Ret(tokenError, Nil, Err(msg, ""), [t EXCEPT !.stack = push(@, tsError)], sy)

\* "default return": no token yet
more(t, sy) == Ret(tokenNone, Nil, NoErr, t, sy)

\* an unescape that keeps the escape character
unescapeKeepsEscape(t, sy, s) ==
    more([t EXCEPT !.stack = pushIfEmpty(pop(@), tsString),
                   !.stringBuf = @ \o GetSpecial(t.config, SpecEscape) \o s], sy)

\* case tsEscape of every character class but the last
unescape(t, sy, s) ==
    more([t EXCEPT !.stack = pushIfEmpty(pop(@), tsString),
                   !.stringBuf = @ \o s], sy)

\* a write that drops white space
writeDropsSpace(t, sy, s) ==
    IF IsSpace(s) THEN more(t, sy) ELSE more([t EXCEPT !.stringBuf = @ \o s], sy)

write(t, sy, s) == more([t EXCEPT !.stringBuf = @ \o s], sy)

emitString(t, sy) ==
    Ret(tokenString, tokSymval(t), NoErr, [t EXCEPT !.stack = pop(@)], sy)

RECURSIVE scan(_, _)
RECURSIVE Next(_, _)
RECURSIVE get(_, _, _)

\* put: first wins; the result says whether s has the syntax of a symbol
putOk(config, s) ==
    /\ Len(s) > 1
    /\ Ch(s, 1) = GetSpecial(config, SpecSymbolPrefix)
    /\ Ch(s, 2) # GetSpecial(config, SpecSymbolPrefix)

\* a put where the last definition wins
putLastWins(config, sy, s, value) ==
    IF putOk(config, s)
    THEN LET sym == SubSeq(s, 2, Len(s)) IN
         [sy EXCEPT !.table = (sym :> symval(FALSE, value))
                               @@ [k \in DOMAIN @ \ {sym} |-> @[k]]]
    ELSE sy

put(config, sy, s, value) ==
    IF putOk(config, s)
    THEN LET sym == SubSeq(s, 2, Len(s)) IN
         IF sym \notin DOMAIN sy.table
         THEN [sy EXCEPT !.table = (sym :> symval(FALSE, value)) @@ @]
         ELSE sy
    ELSE sy

\* a value that get scans as it is, without quotes
quoteBare(config, value) == value

\* the value of a symbol between quotes, as get scans it
quote(config, value) ==
    GetSpecial(config, SpecOpenQuote) \o value \o GetSpecial(config, SpecCloseQuote)

\* a get without the deferred delete of the cycle entry
getKeepsCycleScanned(symbol, quoted, r) ==
    IF r.err # NoErr THEN Ret(tokenNone, Nil, r.err, Nil, r.sy)
    ELSE IF r.tok # tokenString
    THEN Ret(tokenNone, Nil, Err("recursive scan failed", quoted), Nil, r.sy)
    ELSE Ret(tokenNone, r.sv, NoErr, Nil,
             [r.sy EXCEPT !.table[symbol].resolved = r.sv.resolved])

getKeepsCycle(config, sy, symbol) ==
    IF symbol \in sy.cycle
    THEN Ret(tokenNone, Nil, cycleError(symbol), Nil, sy)
    ELSE
    LET sy1 == [sy EXCEPT !.cycle = @ \cup {symbol}] IN
    IF symbol \notin DOMAIN sy1.table THEN Ret(tokenNone, Nil, NoErr, Nil, sy1)
    ELSE IF sy1.table[symbol].resolved
    THEN Ret(tokenNone, sy1.table[symbol], NoErr, Nil, sy1)
    ELSE getKeepsCycleScanned(symbol, quote(config, sy1.table[symbol].s),
            Next(Reset(newTokenizer(config), quote(config, sy1.table[symbol].s)),
                 sy1))

\* a return of get without the deferred delete
getReturnKeeps(symbol, sv, e, sy) == Ret(tokenNone, sv, e, Nil, sy)

\* what get returns: the deferred delete of the cycle entry runs on every
\* path after the entry was made
getReturn(symbol, sv, e, sy) ==
    Ret(tokenNone, sv, e, Nil, [sy EXCEPT !.cycle = @ \ {symbol}])

\* get, from the result r of the scan of the quoted value on
getScanned(symbol, quoted, r) ==
    IF r.err # NoErr THEN getReturn(symbol, Nil, r.err, r.sy)
    ELSE IF r.tok # tokenString
    THEN getReturn(symbol, Nil, Err("recursive scan failed", quoted), r.sy)
    ELSE getReturn(symbol, r.sv, NoErr,
                   [r.sy EXCEPT !.table[symbol].resolved = r.sv.resolved])

get(config, sy, symbol) ==
    IF symbol \in sy.cycle
    THEN Ret(tokenNone, Nil, cycleError(symbol), Nil, sy)
    ELSE
    LET sy1 == [sy EXCEPT !.cycle = @ \cup {symbol}] IN
    IF symbol \notin DOMAIN sy1.table THEN getReturn(symbol, Nil, NoErr, sy1)
    ELSE IF sy1.table[symbol].resolved
    THEN getReturn(symbol, sy1.table[symbol], NoErr, sy1)
    ELSE getScanned(symbol, quote(config, sy1.table[symbol].s),
            Next(Reset(newTokenizer(config), quote(config, sy1.table[symbol].s)),
                 sy1))

\* tsSymbol on a close quote, from the result g of get on: t1 is the
\* tokenizer after the state was popped
resolved(t1, symbol, g) ==
    LET config == t1.config
        t2 == IF g.sv.nil \/ ~g.sv.resolved THEN [t1 EXCEPT !.resolved = FALSE]
              ELSE t1
    IN  IF g.err # NoErr
        THEN LET t3 == [t2 EXCEPT !.stack = push(@, tsError)] IN
             IF g.err.kind = cycleError("").kind
             THEN Ret(tokenError, Nil, g.err, t3, g.sy)
             ELSE genericError(t3, g.sy, "error resolving")
        ELSE IF ~g.sv.nil
        THEN write(t2, g.sy, g.sv.s)
        ELSE write(t2, g.sy,
                   GetSpecial(config, SpecSymbolPrefix)
                     \o GetSpecial(config, SpecOpenQuote) \o symbol
                     \o GetSpecial(config, SpecCloseQuote))

\* tsSymbol on a close quote: resolve the symbol collected in symBuf
resolveSymbol(t, sy) ==
    resolved([t EXCEPT !.stack = pushIfEmpty(pop(@), tsString), !.symBuf = ""],
             t.symBuf, get(t.config, sy, t.symBuf))

scan(t0, sy) ==
    LET config == t0.config
        eof == t0.pos >= Len(t0.input)
        r   == IF eof THEN "" ELSE Ch(t0.input, t0.pos + 1)
        t   == IF eof THEN t0 ELSE [t0 EXCEPT !.pos = @ + 1]
        st  == top(t0.stack)
    IN
    IF r = RuneError THEN invalidCharacterError(t0, sy, "invalid character")
    ELSE IF r = BOM
    THEN invalidCharacterError(t0, sy, "byte order mark character not supported")
    ELSE IF eof THEN
        CASE st = tsInit -> Ret(tokenEnd, Nil, NoErr, t, sy)
          [] st = tsString -> emitString(t, sy)
          [] st \in {tsBracket, tsSymbol, tsPrefix, tsEscape} ->
                genericError(t, sy, "premature end of input")
          [] st = tsEnd -> Ret(tokenEnd, Nil, NoErr, [t EXCEPT !.stack = pop(@)], sy)
          [] OTHER -> Ret(tokenPanic, Nil, Err("bug in scan", r), t, sy)
    ELSE IF IsSpace(r) THEN
        CASE st = tsInit -> more(t, sy)
          [] st = tsString -> emitString(t, sy)
          [] st = tsBracket -> write(t, sy, r)
          [] st \in {tsSymbol, tsPrefix} -> symbolCharacterError(t, sy, r)
          [] st = tsEscape -> unescape(t, sy, r)
          [] OTHER -> Ret(tokenPanic, Nil, Err("bug in scan", r), t, sy)
    ELSE IF r = GetSpecial(config, SpecSeparator) THEN
        CASE st = tsInit -> Ret(tokenEqual, Nil, NoErr, t, sy)
          [] st = tsString -> emitString(t0, sy)   \* the character is unread
          [] st = tsBracket -> write(t, sy, r)
          [] st \in {tsSymbol, tsPrefix} -> symbolCharacterError(t, sy, r)
          [] st = tsEscape -> unescape(t, sy, r)
          [] OTHER -> Ret(tokenPanic, Nil, Err("bug in scan", r), t, sy)
    ELSE IF r = GetSpecial(config, SpecEscape) THEN
        CASE st \in {tsInit, tsString, tsBracket} ->
                more([t EXCEPT !.stack = push(@, tsEscape)], sy)
          [] st \in {tsSymbol, tsPrefix} -> symbolCharacterError(t, sy, r)
          [] st = tsEscape -> unescape(t, sy, r)
          [] OTHER -> Ret(tokenPanic, Nil, Err("bug in scan", r), t, sy)
    ELSE IF r = GetSpecial(config, SpecOpenQuote) THEN
        CASE st \in {tsInit, tsString} ->
                more([t EXCEPT !.stack = push(@, tsBracket)], sy)
          [] st = tsBracket ->
                more([t EXCEPT !.stack = push(@, tsBracket),
                               !.stringBuf = @ \o r], sy)
          [] st = tsSymbol -> symbolCharacterError(t, sy, r)
          [] st = tsPrefix -> more([t EXCEPT !.stack = push(pop(@), tsSymbol)], sy)
          [] st = tsEscape -> unescape(t, sy, r)
          [] OTHER -> Ret(tokenPanic, Nil, Err("bug in scan", r), t, sy)
    ELSE IF r = GetSpecial(config, SpecCloseQuote) THEN
        CASE st \in {tsInit, tsString} -> genericError(t, sy, "premature close quote")
          [] st = tsBracket ->
                IF top(pop(t.stack)) = tsBracket
                THEN more([t EXCEPT !.stack = pop(@), !.stringBuf = @ \o r], sy)
                ELSE more([t EXCEPT !.stack = pushIfEmpty(pop(@), tsString)], sy)
          [] st = tsSymbol -> resolveSymbol(t, sy)
          [] st = tsPrefix -> symbolCharacterError(t, sy, r)
          [] st = tsEscape -> unescape(t, sy, r)
          [] OTHER -> Ret(tokenPanic, Nil, Err("bug in scan", r), t, sy)
    ELSE IF r = GetSpecial(config, SpecSymbolPrefix) THEN
        CASE st \in {tsInit, tsString, tsBracket} ->
                more([t EXCEPT !.stack = push(@, tsPrefix)], sy)
          [] st \in {tsSymbol, tsPrefix} -> symbolCharacterError(t, sy, r)
          [] st = tsEscape -> unescape(t, sy, r)
          [] OTHER -> Ret(tokenPanic, Nil, Err("bug in scan", r), t, sy)
    ELSE
        CASE st = tsInit ->
                more([t EXCEPT !.stack = push(@, tsString), !.stringBuf = @ \o r], sy)
          [] st \in {tsString, tsBracket} -> write(t, sy, r)
          [] st = tsSymbol ->
                IF valid(r) THEN more([t EXCEPT !.symBuf = @ \o r], sy)
                ELSE symbolCharacterError(t, sy, r)
          [] st = tsPrefix ->
                unescape(t, sy, GetSpecial(config, SpecSymbolPrefix) \o r)
          [] st = tsEscape -> unescape(t, sy, GetSpecial(config, SpecEscape) \o r)
          [] OTHER -> Ret(tokenPanic, Nil, Err("bug in scan", r), t, sy)

RECURSIVE scanLoop(_, _)
\* the loop of Next, from the result r of scan on
scanned(r) == IF r.tok # tokenNone THEN r ELSE scanLoop(r.t, r.sy)

scanLoop(t, sy) == scanned(scan(t, sy))

Next(t, sy) ==
    IF Len(t.stack) # 0
    THEN Ret(tokenPanic, Nil,
             Err(IF top(t.stack) = tsError THEN "Next() called after an error"
                 ELSE "Next() called on non-empty stack", ""), t, sy)
    ELSE scanLoop([t EXCEPT !.stringBuf = "", !.resolved = TRUE], sy)

----------------------------------------------------------------------------
(* Type converter.  A target is the Go variable a parameter writes to:     *)
(* kind is its reflect.Kind, elem the element kind of an array or slice    *)
(* (key and elem for a map), val its value, cap the capacity of a slice.   *)

\* the value of a decimal, octal (leading 0) or hexadecimal digit
DigitVal == [d \in Digits |->
               CASE d = "0" -> 0 [] d = "1" -> 1 [] d = "2" -> 2 [] d = "3" -> 3
                 [] d = "4" -> 4 [] d = "5" -> 5 [] d = "6" -> 6 [] d = "7" -> 7
                 [] d = "8" -> 8 [] d = "9" -> 9]

RECURSIVE digitsValue(_, _, _)
\* the value of the digits of s in the base, or -1 when one is not a digit
\* of the base
digitsValue(s, base, acc) ==
    IF s = "" THEN acc
    ELSE LET d == Ch(s, 1) IN
         IF d \in Digits /\ DigitVal[d] < base
         THEN digitsValue(SubSeq(s, 2, Len(s)), base, acc * base + DigitVal[d])
         ELSE -1

\* strconv.ParseInt(value, 0, 0) for texts made of a sign and decimal or
\* octal digits; [ok, val]
ParseInt(value) ==
    LET neg  == Len(value) > 0 /\ Ch(value, 1) = "-"
        pos  == Len(value) > 0 /\ Ch(value, 1) = "+"
        body == IF neg \/ pos THEN SubSeq(value, 2, Len(value)) ELSE value
        base == IF Len(body) > 1 /\ Ch(body, 1) = "0" THEN 8 ELSE 10
        digs == IF base = 8 THEN SubSeq(body, 2, Len(body)) ELSE body
        v    == IF digs = "" THEN -1 ELSE digitsValue(digs, base, 0)
    IN  IF v < 0 THEN [ok |-> FALSE, val |-> 0]
        ELSE [ok |-> TRUE, val |-> IF neg THEN 0 - v ELSE v]

\* strconv.ParseBool
ParseBool(value) ==
    IF value \in {"1", "t", "T", "TRUE", "true", "True"}
    THEN [ok |-> TRUE, val |-> TRUE]
    ELSE IF value \in {"0", "f", "F", "FALSE", "false", "False"}
    THEN [ok |-> TRUE, val |-> FALSE]
    ELSE [ok |-> FALSE, val |-> FALSE]

\* convert: [err, val]
convert(value, typ) ==
    CASE typ = "string" -> [err |-> NoErr, val |-> value]
      [] typ = "bool" ->
            LET b == ParseBool(value) IN
            [err |-> IF b.ok THEN NoErr ELSE Err("invalid syntax", value),
             val |-> b.val]
      [] typ = "int" ->
            LET i == ParseInt(value) IN
            [err |-> IF i.ok THEN NoErr ELSE Err("invalid syntax", value),
             val |-> i.val]
      [] OTHER -> [err |-> Err("type is not supported", value), val |-> 0]

\* fooBarScanner of the tests: a custom scanner accepting only foo and bar,
\* and only for a string target; [err, val]
fooBarScanner(value, typ) ==
    IF typ = "string"
    THEN IF value \in {"foo", "bar"} THEN [err |-> NoErr, val |-> value]
         ELSE [err |-> Err("fooBarScanner error", value), val |-> value]
    ELSE [err |-> Err("fooBarScanner error: *string target required", value),
          val |-> value]

NoScan == "nil"

\* p.scan(value, target) or convertValue(value, target) on a variable of
\* kind typ
scanOrConvert(scanner, value, typ) ==
    IF scanner # NoScan THEN fooBarScanner(value, typ) ELSE convert(value, typ)

RECURSIVE natToStr(_)
natToStr(n) ==
    LET d == CHOOSE c \in Digits : DigitVal[c] = n % 10 IN
    IF n < 10 THEN d ELSE natToStr(n \div 10) \o d

\* fmt.Sprint of a value of kind typ
Sprint(v, typ) ==
    CASE typ = "string" -> v
      [] typ = "bool" -> IF v THEN "true" ELSE "false"
      [] typ = "int" -> IF v < 0 THEN "-" \o natToStr(0 - v) ELSE natToStr(v)

reflLen(target) ==
    IF target.kind \in {"array", "slice"} THEN Len(target.val) ELSE -1

reflTakesBool(target) ==
    CASE target.kind = "bool" -> TRUE
      [] target.kind \in {"array", "slice"} -> target.elem = "bool"
      [] OTHER -> FALSE

\* the zero value of a kind
Zero(typ) == CASE typ = "string" -> "" [] typ = "bool" -> FALSE [] typ = "int" -> 0

----------------------------------------------------------------------------
(* Param.                                                                  *)

\* what the methods of Param and Parser return: the parser as the call left
\* it, the error, and the errors Go's map iteration order could have made
\* the call return instead (verify ranges over a map)
Res(a, e) == [a |-> a, err |-> e, alts |-> {e}]

NoSplit == "nil"

RECURSIVE splitAt(_, _, _)
\* regexp.Split(value, -1) for a splitter that matches the one character sep
splitAt(value, sep, piece) ==
    IF value = "" THEN <<piece>>
    ELSE IF Ch(value, 1) = sep
    THEN <<piece>> \o splitAt(SubSeq(value, 2, Len(value)), sep, "")
    ELSE splitAt(SubSeq(value, 2, Len(value)), sep, piece \o Ch(value, 1))

split(p, value) ==
    IF p.splitter = NoSplit THEN <<value>> ELSE splitAt(value, p.splitter, "")

\* an assign that keeps the first value of a scalar
assignFirstWins(p, value) ==
    LET c == scanOrConvert(p.scan, value, p.target.kind) IN
    IF c.err # NoErr THEN [p |-> p, err |-> c.err]
    ELSE IF p.count > 0 THEN [p |-> p, err |-> NoErr]
    ELSE [p |-> [p EXCEPT !.target.val = c.val], err |-> NoErr]

\* assign: convert value and set the scalar target; [p, err]
assign(p, value) ==
    LET c == scanOrConvert(p.scan, value, p.target.kind) IN
    IF c.err # NoErr THEN [p |-> p, err |-> c.err]
    ELSE [p |-> [p EXCEPT !.target.val = c.val], err |-> NoErr]

\* assignIndexed: convert value and set element i (from 0) of the target
assignIndexed(p, value, i) ==
    LET c == scanOrConvert(p.scan, value, p.target.elem) IN
    IF c.err # NoErr THEN [p |-> p, err |-> c.err]
    ELSE [p |-> [p EXCEPT !.target.val[i + 1] = c.val], err |-> NoErr]

RECURSIVE scanAllFromZero(_, _, _)
\* a loop that stores the values from element 0 on, whatever the counter
scanAllFromZero(p, values, i) ==
    IF i >= Len(values) THEN [p |-> p, err |-> NoErr]
    ELSE LET r == assignIndexed(p, values[i + 1], i) IN
         IF r.err # NoErr THEN r ELSE scanAllFromZero(r.p, values, i + 1)

RECURSIVE scanAll(_, _, _)
\* the loop "scan all values" of parseArrayValues and parseSliceValues,
\* from the i-th value on; it breaks at the first error
scanAll(p, values, i) ==
    IF i >= Len(values) THEN [p |-> p, err |-> NoErr]
    ELSE LET r == assignIndexed(p, values[i + 1], p.count + i) IN
         IF r.err # NoErr THEN r ELSE scanAll(r.p, values, i + 1)

\* parseArrayValues with the counter advanced although the values are refused
parseArrayValuesCounts(p, values) ==
    LET total == Len(values) + p.count IN
    IF total > p.limit
    THEN [p |-> [p EXCEPT !.count = total],
          err |-> Err("too many values specified", "")]
    ELSE LET r == scanAll(p, values, 0) IN
         [p |-> [r.p EXCEPT !.count = total], err |-> r.err]

parseArrayValues(p, values) ==
    LET total == Len(values) + p.count IN
    IF total > p.limit
    THEN [p |-> p, err |-> Err("too many values specified", "")]
    ELSE LET r == scanAll(p, values, 0) IN
         [p |-> [r.p EXCEPT !.count = total], err |-> r.err]

\* reflect.MakeSlice(total, total), reflect.Copy and Set
growSlice(target, total) ==
    [target EXCEPT
        !.val = [i \in 1..total |->
                    IF i <= Len(target.val) THEN target.val[i]
                    ELSE Zero(target.elem)],
        !.cap = total]

\* a parseSliceValues that ignores the limit
parseSliceValuesNoLimit(p, values) ==
    LET total == Len(values) + p.count
        p1 == IF total > Len(p.target.val)
              THEN [p EXCEPT !.target = growSlice(@, total)]
              ELSE p
        r  == scanAll(p1, values, 0)
    IN  [p |-> [r.p EXCEPT !.count = total], err |-> r.err]

parseSliceValues(p, values) ==
    LET total == Len(values) + p.count IN
    IF p.limit # 0 /\ total > p.limit
    THEN [p |-> p, err |-> Err("values specified, at most expected", "")]
    ELSE LET p1 == IF total > Len(p.target.val)
                   THEN [p EXCEPT !.target = growSlice(@, total)]
                   ELSE p
             r  == scanAll(p1, values, 0)
         IN  [p |-> [r.p EXCEPT !.count = total], err |-> r.err]

\* convertKeyValue: [target, err]
convertKeyValue(key, value, target) ==
    LET k == convert(key, target.key)
        v == convert(value, target.elem)
    IN  IF k.err # NoErr
        THEN [target |-> target, err |-> Err("key cannot be converted", key)]
        ELSE IF v.err # NoErr
        THEN [target |-> target,
              err |-> Err("value for key cannot be converted", key)]
        ELSE [target |-> [target EXCEPT !.val = (k.val :> v.val) @@ @],
              err |-> NoErr]

----------------------------------------------------------------------------
(* Name-value extractor.                                                   *)

newNameValParser(a, in) ==
    [t |-> Reset(newTokenizer(a.config), in), name |-> Nil]

\* what next returns: name, value, error, and the extractor and the symbol
\* table as the call left them
NV(name, value, e, nvp, sy) ==
    [name |-> name, value |-> value, err |-> e, nvp |-> nvp, sy |-> sy]

failed(r) == r.tok \in {tokenError, tokenPanic}

\* next, with the token r3 that follows the separator: a value is expected
nextValue(name, nvp, r3) ==
    IF failed(r3)
    THEN NV(Nil, Nil, decorate(r3.err, name.s), [nvp EXCEPT !.t = r3.t], r3.sy)
    ELSE IF r3.tok = tokenEnd
    THEN NV(Nil, Nil, Err("premature end of input", ""),
            [nvp EXCEPT !.t = r3.t], r3.sy)
    ELSE IF r3.tok = tokenEqual
    THEN NV(Nil, Nil, Err("separator unexpected", ""),
            [nvp EXCEPT !.t = r3.t], r3.sy)
    ELSE NV(name, r3.sv, NoErr, [nvp EXCEPT !.t = r3.t], r3.sy)

\* a nextSeparator that does not keep the string that follows a value
\* without a name
nextSeparatorDropsName(name, nvp, r2) ==
    IF failed(r2)
    THEN NV(Nil, Nil, decorate(r2.err, name.s), [nvp EXCEPT !.t = r2.t], r2.sy)
    ELSE IF r2.tok \in {tokenEnd, tokenString}
    THEN NV(Nil, name, NoErr, [nvp EXCEPT !.t = r2.t], r2.sy)
    ELSE nextValue(name, nvp, Next(r2.t, r2.sy))

\* next, with the token r2 that follows the name
nextSeparator(name, nvp, r2) ==
    IF failed(r2)
    THEN NV(Nil, Nil, decorate(r2.err, name.s), [nvp EXCEPT !.t = r2.t], r2.sy)
    ELSE IF r2.tok = tokenEnd
    THEN NV(Nil, name, NoErr, [nvp EXCEPT !.t = r2.t], r2.sy)
    ELSE IF r2.tok = tokenString
    THEN NV(Nil, name, NoErr, [nvp EXCEPT !.t = r2.t, !.name = r2.sv], r2.sy)
    ELSE nextValue(name, nvp, Next(r2.t, r2.sy))

\* the part of next after a name was read: nvp holds the tokenizer to go on
\* with
nextAfterName(name, nvp, sy) == nextSeparator(name, nvp, Next(nvp.t, sy))

\* next, with the first token r1 when no name is pending
nextName(nvp, r1) ==
    IF failed(r1) THEN NV(Nil, Nil, r1.err, [nvp EXCEPT !.t = r1.t], r1.sy)
    ELSE IF r1.tok = tokenEnd
    THEN NV(Nil, Nil, NoErr, [nvp EXCEPT !.t = r1.t], r1.sy)
    ELSE IF r1.tok = tokenEqual
    THEN NV(Nil, Nil, Err("separator unexpected", ""),
            [nvp EXCEPT !.t = r1.t], r1.sy)
    ELSE nextAfterName(r1.sv, [nvp EXCEPT !.t = r1.t], r1.sy)

next(nvp, sy) ==
    IF nvp.name.nil THEN nextName(nvp, Next(nvp.t, sy))
    ELSE nextAfterName(nvp.name, [nvp EXCEPT !.name = Nil], sy)

----------------------------------------------------------------------------
(* Parser.  params maps every name (canonical or synonym) to the canonical *)
(* name of its parameter, which stands for the *Param; par maps the        *)
(* canonical name to the Param.                                            *)

NoFunc == [x \in {} |-> 0]

\* a CustomParser that keeps the Config it is given
CustomParserShares(configuration) ==
    [config |-> configuration, params |-> NoFunc, par |-> NoFunc,
     seq |-> <<>>, targets |-> {}, symbols |-> newSymtab, cycle |-> {}]

CustomParser(configuration) ==
    [config |-> copy(configuration), params |-> NoFunc, par |-> NoFunc,
     seq |-> <<>>, targets |-> {}, symbols |-> newSymtab, cycle |-> {}]

\* a SubParser that starts from the symbols of the parser
SubParserWithSymbols(a) ==
    [CustomParser(a.config) EXCEPT !.symbols = a.symbols]

SubParser(a) == CustomParser(a.config)

NewParser == CustomParser(NewConfig)

NoOp == "nil"

\* operator: the operator of that name, or nil
operator(a, name) ==
    IF name \in DOMAIN a.config.opDict THEN a.config.opDict[name] ELSE NoOp

\* the panics of Def
DefPanics(a, name, target) ==
    \/ name \in DOMAIN a.params
    \/ target.id \in a.targets
    \/ ~validate(name)
    \/ operator(a, name) # NoOp

Def(a, name, target) ==
    LET p == [name |-> name,
              limit |-> CASE target.kind = "array" -> Len(target.val)
                          [] target.kind = "slice" -> target.cap
                          [] OTHER -> 1,
              count |-> 0, verbatim |-> FALSE, target |-> target,
              scan |-> NoScan, splitter |-> NoSplit]
    IN  [a EXCEPT !.params = (name :> name) @@ @,
                  !.par = (name :> p) @@ @,
                  !.targets = @ \cup {target.id},
                  !.seq = Append(@, name)]

\* the methods of Param, on the parameter with the canonical name n
AkaPanics(a, n, alias) == alias \in DOMAIN a.params \/ ~validate(alias)

Aka(a, n, alias) ==
    [a EXCEPT !.params = (alias :> n) @@ @, !.seq = Append(@, alias)]

\* an Opt that takes every target
OptPanicsNever(a, n) == FALSE

OptPanics(a, n) == reflLen(a.par[n].target) >= 0

Opt(a, n) == [a EXCEPT !.par[n].limit = 0]

VerbatimPanics(a, n) ==
    LET t == a.par[n].target IN
    ~ CASE t.kind = "string" -> TRUE
        [] t.kind \in {"array", "slice"} -> t.elem = "string"
        [] OTHER -> FALSE

\* a Verbatim that leaves the parameter as it is
VerbatimIgnored(a, n) == a

Verbatim(a, n) == [a EXCEPT !.par[n].verbatim = TRUE]

ScanPanics(a, n) == a.par[n].target.kind = "map"

Scan(a, n, f) == [a EXCEPT !.par[n].scan = f]

SplitPanics(a, n) == a.par[n].target.kind \notin {"array", "slice"}

Split(a, n, sep) == [a EXCEPT !.par[n].splitter = sep]

RECURSIVE joinBlank(_)
\* parseMapValues: every value followed by a blank
joinBlank(values) ==
    IF Len(values) = 0 THEN ""
    ELSE values[1] \o " " \o joinBlank(Tail(values))

RECURSIVE mapLoop(_, _, _)
\* the loop of parseMapValues, from the conversion c of a pair on
mapConverted(a, n, nvp, c) ==
    IF c.err # NoErr THEN Res(a, c.err)
    ELSE mapLoop([a EXCEPT !.par[n].target = c.target, !.par[n].count = @ + 1],
                 n, nvp)

\* the loop of parseMapValues, from the pair r that next returns on
mapPair(a, n, r) ==
    IF r.err # NoErr THEN Res([a EXCEPT !.symbols = r.sy], r.err)
    ELSE IF r.name.nil /\ r.value.nil THEN Res([a EXCEPT !.symbols = r.sy], NoErr)
    ELSE mapConverted([a EXCEPT !.symbols = r.sy], n, r.nvp,
                      convertKeyValue(IF r.name.nil THEN "" ELSE r.name.s,
                                      r.value.s, a.par[n].target))

\* the loop of parseMapValues over the pairs of the value
mapLoop(a, n, nvp) == mapPair(a, n, next(nvp, a.symbols))

parseMapValues(a, n, values) ==
    mapLoop(a, n, newNameValParser(a, joinBlank(values)))

\* parseValues, from the result x of the method of the kind on: the
\* parameter as the method left it, the error with the name
parsed(a, n, x) ==
    Res([a EXCEPT !.par[n] = x.p],
        IF x.err # NoErr THEN decorate(x.err, a.par[n].name) ELSE NoErr)

\* the same for a map, where the method works on the parser
parsedMap(r, name) == IF r.err # NoErr THEN Res(r.a, decorate(r.err, name)) ELSE r

\* p.count++ after assign
counted(x) == [p |-> [x.p EXCEPT !.count = @ + 1], err |-> x.err]

\* parseValues, for the parameter with the canonical name n
parseValues(a, n, values) ==
    CASE a.par[n].target.kind = "array" ->
            parsed(a, n, parseArrayValues(a.par[n], values))
      [] a.par[n].target.kind = "slice" ->
            parsed(a, n, parseSliceValues(a.par[n], values))
      [] a.par[n].target.kind = "map" ->
            parsedMap(parseMapValues(a, n, values), a.par[n].name)
      [] OTHER ->
            \* multiple values specified: the last wins
            parsed(a, n, counted(assign(a.par[n], values[Len(values)])))

\* an isStandaloneBoolParameter that does not look at the target
isStandaloneAnyParameter(a, value) ==
    /\ value.resolved
    /\ value.s \in DOMAIN a.params

\* an isStandaloneBoolParameter that knows the names given to Def only
isStandaloneBoolCanonical(a, value) ==
    /\ value.resolved
    /\ value.s \in DOMAIN a.par
    /\ reflTakesBool(a.par[value.s].target)

isStandaloneBoolParameter(a, value) ==
    /\ value.resolved
    /\ value.s \in DOMAIN a.params
    /\ reflTakesBool(a.par[a.params[value.s]].target)

\* getAnonymousMapParameter: the canonical name of the parameter registered
\* under the empty name if its target is a map; found says whether there is
\* one
getAnonymousMapParameter(a) ==
    IF "" \in DOMAIN a.params /\ a.par[a.params[""]].target.kind = "map"
    THEN [found |-> TRUE, n |-> a.params[""]]
    ELSE [found |-> FALSE, n |-> ""]

setValue(a, name, value) ==
    IF ~name.resolved THEN Res(a, Err("cannot resolve name", name.s))
    ELSE IF putOk(a.config, name.s)
    THEN Res([a EXCEPT !.symbols = put(a.config, @, name.s, value.s)], NoErr)
    ELSE IF name.s \in DOMAIN a.params
    THEN LET n == a.params[name.s]
             p == a.par[n]
         IN  IF ~value.resolved /\ ~p.verbatim
             THEN IF Len(name.s) = 0
                  THEN Res(a, Err("cannot resolve standalone value", value.s))
                  ELSE Res(a, Err("cannot resolve value", value.s))
             ELSE parseValues(a, n, split(p, value.s))
    ELSE LET m == getAnonymousMapParameter(a) IN
         IF m.found
         THEN LET c == convertKeyValue(name.s, value.s, a.par[m.n].target) IN
              Res([a EXCEPT !.par[m.n].target = c.target], c.err)
         ELSE Res(a, Err("parameter not defined", name.s))

\* verify: the errors verify can return, one for each parameter that fails
\* (the order in which it ranges over the map params is not fixed); the empty
\* set when it returns nil
\* a verify that does not look at arrays
verifyParamNoArray(a, n) ==
    LET p == a.par[n] IN
    IF p.target.kind \in {"array", "slice"} THEN {}
    ELSE IF p.count < 1 /\ p.limit # 0
    THEN {decorate(Err("mandatory parameter not set", ""), n)}
    ELSE {}

\* a verify that does not scan the default values
verifyParamNoDefaults(a, n) ==
    LET p == a.par[n] IN
    CASE p.target.kind = "slice" -> {}
      [] p.target.kind = "array" ->
           IF p.count # p.limit
           THEN {decorate(Err("values specified but exactly expected", ""), n)}
           ELSE {}
      [] OTHER ->
           IF p.count < 1 /\ p.limit # 0
           THEN {decorate(Err("mandatory parameter not set", ""), n)}
           ELSE {}

verifyParam(a, n) ==
    LET p == a.par[n]
        t == p.target
    IN  CASE t.kind = "slice" ->
               IF p.scan # NoScan
                  /\ \E i \in p.count .. (reflLen(t) - 1) :
                        scanOrConvert(p.scan, Sprint(t.val[i + 1], t.elem),
                                      t.elem).err # NoErr
               THEN {decorate(Err("invalid default value at offset", ""), n)}
               ELSE {}
          [] t.kind = "array" ->
               IF p.count # p.limit
               THEN {decorate(Err("values specified but exactly expected", ""), n)}
               ELSE {}
          [] OTHER ->
               IF p.count < 1
               THEN IF p.limit # 0
                    THEN {decorate(Err("mandatory parameter not set", ""), n)}
                    ELSE IF p.scan # NoScan
                            /\ scanOrConvert(p.scan, Sprint(t.val, t.kind),
                                             t.kind).err # NoErr
                    THEN {decorate(Err("invalid default value", ""), n)}
                    ELSE {}
               ELSE {}

verify(a) ==
    UNION {verifyParam(a, n) : n \in {m \in DOMAIN a.params : m = a.par[a.params[m]].name}}

\* symbol: s without the symbol prefix and true if s starts with the prefix
symbol(s, a) ==
    IF Len(s) > 1 /\ Ch(s, 1) = GetSpecial(a.config, SpecSymbolPrefix)
    THEN [s |-> SubSeq(s, 2, Len(s)), isSymbol |-> TRUE]
    ELSE [s |-> s, isSymbol |-> FALSE]

\* the targets the operators declare for their sub-parsers
localString(id) == [id |-> id, kind |-> "string", val |-> ""]

localStrings(id) ==
    [id |-> id, kind |-> "slice", elem |-> "string", val |-> <<>>, cap |-> 0]

RECURSIVE ParseBytes(_, _)
RECURSIVE parseLoop(_, _)
RECURSIVE handle(_, _, _)

parse(a, b) == parseLoop(a, newNameValParser(a, b))

Parse(a, s) == ParseBytes(a, s)

ParseStrings(a, ss) ==
    Parse(a, IF Len(ss) = 0 THEN "" ELSE SubSeq(joinBlank(ss), 1, Len(joinBlank(ss)) - 1))

\* ParseBytes, from the result r of parse on
verified(r) ==
    IF r.err # NoErr THEN r
    ELSE LET v == verify(r.a) IN
         IF v = {} THEN Res(r.a, NoErr)
         ELSE [a |-> r.a, err |-> CHOOSE e \in v : TRUE, alts |-> v]

ParseBytes(a, b) == verified(parse(a, b))

\* a loop that goes on to the next pair after an error
parsedPairGoesOn(x, nvp) == parseLoop(x.a, nvp)

\* the loop of parse, from the result x of the operator or of setValue on
parsedPair(x, nvp) == IF x.err # NoErr THEN x ELSE parseLoop(x.a, nvp)

\* the loop of parse, from the pair r that next returns on
parsePair(a, r) ==
    LET a1 == [a EXCEPT !.symbols = r.sy] IN
    IF r.err # NoErr THEN Res(a1, r.err)
    ELSE IF r.name.nil /\ r.value.nil THEN Res(a1, NoErr)
    ELSE IF r.name.nil /\ ~isStandaloneBoolParameter(a1, r.value)
            /\ "" \notin DOMAIN a1.params
    THEN Res(a1, Err("unexpected standalone value", r.value.s))
    ELSE LET name  == IF ~r.name.nil THEN r.name
                      ELSE IF isStandaloneBoolParameter(a1, r.value)
                      THEN r.value
                      ELSE symval(TRUE, "")
             value == IF r.name.nil /\ isStandaloneBoolParameter(a1, r.value)
                      THEN symval(TRUE, "true")
                      ELSE r.value
             op    == operator(a1, name.s)
         IN  parsedPair(IF op # NoOp THEN handle(a1, op, value.s)
                        ELSE setValue(a1, name, value), r.nvp)

\* the loop of parse: one name-value pair at a time
parseLoop(a, nvp) == parsePair(a, next(nvp, a.symbols))

\* a reset that removes nothing
RECURSIVE resetLoopKeeps(_, _, _)
resetLoopKeeps(a, symbols, i) ==
    IF i > Len(symbols) THEN Res(a, NoErr)
    ELSE LET y == symbol(symbols[i], a) IN
         IF y.isSymbol THEN resetLoopKeeps(a, symbols, i + 1)
         ELSE Res(a, Err("reset: symbol prefix missing", symbols[i]))

\* the symbols of a sub-parser's anonymous list that are removed by reset
RECURSIVE resetLoop(_, _, _)
resetLoop(a, symbols, i) ==
    IF i > Len(symbols) THEN Res(a, NoErr)
    ELSE LET y == symbol(symbols[i], a) IN
         IF y.isSymbol
         THEN resetLoop([a EXCEPT !.symbols.table = Delete(@, y.s)], symbols, i + 1)
         ELSE Res(a, Err("reset: symbol prefix missing", symbols[i]))

\* a macro that passes over the symbols that are not defined
RECURSIVE macroCodeSkips(_, _, _, _)
macroCodeSkips(a, symbols, i, code) ==
    IF i > Len(symbols) THEN [code |-> code, err |-> NoErr]
    ELSE LET y == symbol(symbols[i], a) IN
         IF ~y.isSymbol
         THEN [code |-> code, err |-> Err("macro: symbol prefix missing", symbols[i])]
         ELSE IF y.s \notin DOMAIN a.symbols.table
         THEN macroCodeSkips(a, symbols, i + 1, code)
         ELSE macroCodeSkips(a, symbols, i + 1, Append(code, a.symbols.table[y.s].s))

\* the texts macro collects: [code, err]
RECURSIVE macroCode(_, _, _, _)
macroCode(a, symbols, i, code) ==
    IF i > Len(symbols) THEN [code |-> code, err |-> NoErr]
    ELSE LET y == symbol(symbols[i], a) IN
         IF ~y.isSymbol
         THEN [code |-> code, err |-> Err("macro: symbol prefix missing", symbols[i])]
         ELSE IF y.s \notin DOMAIN a.symbols.table
         THEN [code |-> code, err |-> Err("macro: symbol undefined", symbols[i])]
         ELSE macroCode(a, symbols, i + 1, Append(code, a.symbols.table[y.s].s))

\* the sub-parser of dump, import, macro and reset after it parsed value: an
\* anonymous list of verbatim strings (its error is not looked at)
listParser(a, value) ==
    Parse(Verbatim(Def(SubParser(a), "", localStrings("symbols")), ""), value).a

\* the sub-parser of cond
condParser(a) ==
    Verbatim(Opt(Def(Verbatim(Def(Verbatim(Def(SubParser(a),
        "if", localString("condIf")), "if"),
        "then", localString("condThen")), "then"),
        "else", localString("condElse")), "else"), "else")

\* a cond for which a defined parameter is true whether set or not
condParsedDefined(a, r) ==
    IF r.err # NoErr THEN [a |-> a, err |-> r.err, alts |-> r.alts]
    ELSE
    LET condIf   == r.a.par["if"].target.val
        condThen == r.a.par["then"].target.val
        condElse == r.a.par["else"].target.val
        y        == symbol(condIf, a)
    IN  IF ~y.isSymbol /\ y.s \notin DOMAIN a.params
        THEN Res(a, Err("cond/if: parameter not defined", y.s))
        ELSE LET cond == IF y.isSymbol THEN y.s \in DOMAIN a.symbols.table
                         ELSE TRUE
             IN  IF cond THEN Parse(a, condThen)
                 ELSE IF Len(condElse) > 0 THEN Parse(a, condElse)
                 ELSE Res(a, NoErr)

\* cond, from the result r of the sub-parser on
condParsed(a, r) ==
    IF r.err # NoErr THEN [a |-> a, err |-> r.err, alts |-> r.alts]
    ELSE
    LET condIf   == r.a.par["if"].target.val
        condThen == r.a.par["then"].target.val
        condElse == r.a.par["else"].target.val
        y        == symbol(condIf, a)
    IN  IF ~y.isSymbol /\ y.s \notin DOMAIN a.params
        THEN Res(a, Err("cond/if: parameter not defined", y.s))
        ELSE LET cond == IF y.isSymbol THEN y.s \in DOMAIN a.symbols.table
                         ELSE a.par[a.params[y.s]].count > 0
             IN  IF cond THEN Parse(a, condThen)
                 ELSE IF Len(condElse) > 0 THEN Parse(a, condElse)
                 ELSE Res(a, NoErr)

condOperator(a, value) == condParsed(a, Parse(condParser(a), value))

\* macro, from the result r of ParseStrings on
macroParsed(r) ==
    IF r.err # NoErr /\ r.err.kind # "panic"
    THEN [a |-> r.a, err |-> Err("macro: parsing failed", r.err.kind),
          alts |-> {Err("macro: parsing failed", e.kind) : e \in r.alts}]
    ELSE r

\* macro, from the texts m of the symbols on
macroCollected(a, m) ==
    IF m.err # NoErr THEN Res(a, m.err)
    ELSE macroParsed(ParseStrings(a, m.code))

macroOperator(a, value) ==
    macroCollected(a, macroCode(a, listParser(a, value).par[""].target.val,
                                1, <<>>))

resetOperator(a, value) ==
    resetLoop(a, listParser(a, value).par[""].target.val, 1)

\* the working directory of the process
Getwd == "/d"

\* the characters standing for the bytes 0xEF, 0xBB, 0xBF and 0xC2 of a file
xEF == "{"
xBB == "|"
xBF == "}"
xC2 == "@"

\* the character standing for a rune of several bytes that is no letter, no
\* digit, no space and not U+FEFF
OtherRune == "~"

\* the files of the file system, byte for byte: k holds a pair, m the same
\* after a byte order mark, e is empty, n starts with a letter and U+00BF,
\* p includes q which includes p, g holds two lines and i includes k and
\* sets w
Files ==
    ("/d/k" :> "s=k") @@
    ("/d/m" :> xEF \o xBB \o xBF \o "s=k") @@
    ("/d/e" :> "") @@
    ("/d/n" :> "s" \o xC2 \o xBF \o "=k") @@
    ("/d/p" :> "include=q") @@
    ("/d/q" :> "include=./p") @@
    ("/d/g" :> "s = k\nw=q") @@
    ("/d/i" :> "include=k w=q include=k")

RECURSIVE Clean(_)
\* filepath.Clean for a relative name: the leading ./ elements removed
Clean(name) ==
    IF Len(name) > 1 /\ SubSeq(name, 1, 2) = "./"
    THEN Clean(SubSeq(name, 3, Len(name)))
    ELSE name

\* filepath.Abs
Abs(filename) ==
    IF filename = "" THEN Getwd
    ELSE IF Ch(filename, 1) = "/" THEN filename
    ELSE Getwd \o "/" \o Clean(filename)

RECURSIVE decode(_)
\* the runes that ReadRune reads from the bytes data
decode(data) ==
    IF data = "" THEN ""
    ELSE IF Len(data) >= 3 /\ Ch(data, 1) = xEF
            /\ Ch(data, 2) \in {xBB, xBF} /\ Ch(data, 3) \in {xBB, xBF}
    THEN (IF SubSeq(data, 2, 3) = xBB \o xBF THEN BOM ELSE OtherRune)
         \o decode(SubSeq(data, 4, Len(data)))
    ELSE IF Len(data) >= 2 /\ Ch(data, 1) = xC2 /\ Ch(data, 2) \in {xBB, xBF}
    THEN OtherRune \o decode(SubSeq(data, 3, Len(data)))
    ELSE IF Ch(data, 1) \in {xEF, xBB, xBF, xC2}
    THEN RuneError \o decode(SubSeq(data, 2, Len(data)))
    ELSE Ch(data, 1) \o decode(SubSeq(data, 2, Len(data)))

\* the sub-parser of include
includeParser(a) ==
    Opt(Def(Verbatim(Opt(Def(Def(SubParser(a),
        "", localString("filename")),
        "keys", localString("keys")), "keys"), "keys"),
        "extractor", localString("extractor")), "extractor")

\* the test for a byte order mark, as written: && binds tighter than ||
hasBOM(data) ==
    (Ch(data, 1) = xEF /\ Ch(data, 2) = xBB) \/ Ch(data, 3) = xBF

\* include in basic mode, from the bytes of the file on; data[2] or
\* data[3:] is out of range for a file of less than three bytes
includeData(a, data) ==
    IF Len(data) < 3
    THEN Res(a, Err("panic", "runtime error: index out of range"))
    ELSE ParseBytes(a, decode(IF hasBOM(data) THEN SubSeq(data, 4, Len(data))
                              ELSE data))

includeBasic(a, path, extractor) ==
    IF Len(extractor) > 0
    THEN Res(a, Err("include: specify extractor only with keys parameter", ""))
    ELSE IF path \notin DOMAIN Files THEN Res(a, Err("include: open", path))
    ELSE includeData(a, Files[path])

RECURSIVE keysLoop(_, _, _)
\* the loop over the keys, from the pair r that next returns on: [kvmap, err, sy]
keysNext(r, kvmap) ==
    IF r.err # NoErr THEN [kvmap |-> kvmap, err |-> r.err, sy |-> r.sy]
    ELSE IF r.name.nil /\ r.value.nil
    THEN [kvmap |-> kvmap, err |-> NoErr, sy |-> r.sy]
    ELSE IF ~r.value.resolved
    THEN [kvmap |-> kvmap, err |-> Err("include: cannot resolve key", r.value.s),
          sy |-> r.sy]
    ELSE keysLoop(r.nvp, r.sy,
                  ((IF r.name.nil THEN r.value.s ELSE r.name.s) :> r.value.s)
                      @@ kvmap)

keysLoop(nvp, sy, kvmap) == keysNext(next(nvp, sy), kvmap)

RECURSIVE readLines(_, _)
\* the lines that ReadString('\n') returns one after the other
readLines(data, line) ==
    IF data = "" THEN (IF line = "" THEN <<>> ELSE <<line>>)
    ELSE IF Ch(data, 1) = "\n"
    THEN <<line \o "\n">> \o readLines(SubSeq(data, 2, Len(data)), "")
    ELSE readLines(SubSeq(data, 2, Len(data)), line \o Ch(data, 1))

\* the first position from i on that holds no space
skipSpaces(s, i) ==
    CHOOSE j \in i..(Len(s) + 1) :
        /\ j = Len(s) + 1 \/ ~IsSpace(Ch(s, j))
        /\ \A k \in i..(j - 1) : IsSpace(Ch(s, k))

\* the last position of the run without spaces that starts at i
runEnd(s, i) ==
    CHOOSE k \in i..Len(s) :
        /\ \A j \in i..k : ~IsSpace(Ch(s, j))
        /\ k = Len(s) \/ IsSpace(Ch(s, k + 1))

\* where the = must stand when the first group ends at m in a run ending at e
eqAfter(s, m, e) == IF m = e THEN skipSpaces(s, e + 1) ELSE m + 1

\* the ends of the first group with which the default extractor
\* \s*(\S+)\s*=\s*(\S+)\s* matches when the group starts at j
groupEnds(s, j) ==
    IF j > Len(s) THEN {}
    ELSE {m \in j..runEnd(s, j) :
             /\ eqAfter(s, m, runEnd(s, j)) <= Len(s)
             /\ Ch(s, eqAfter(s, m, runEnd(s, j))) = "="
             /\ skipSpaces(s, eqAfter(s, m, runEnd(s, j)) + 1) <= Len(s)}

Max(S) == CHOOSE x \in S : \A y \in S : y <= x

Min(S) == CHOOSE x \in S : \A y \in S : x <= y

\* the groups of the match that starts at the first non-space from i on
groups(s, j, m) ==
    [found |-> TRUE,
     name  |-> SubSeq(s, j, m),
     value |-> SubSeq(s, skipSpaces(s, eqAfter(s, m, runEnd(s, j)) + 1),
                      runEnd(s, skipSpaces(s, eqAfter(s, m, runEnd(s, j)) + 1)))]

\* re.FindStringSubmatch(line) for the default extractor: the leftmost match
capture(s) ==
    LET starts == {i \in 1..Len(s) : groupEnds(s, skipSpaces(s, i)) # {}} IN
    IF starts = {} THEN [found |-> FALSE, name |-> "", value |-> ""]
    ELSE groups(s, skipSpaces(s, Min(starts)),
                Max(groupEnds(s, skipSpaces(s, Min(starts)))))

\* the parser after a line with the groups c (the error of setValue is
\* not looked at)
lineSet(a, kvmap, c) ==
    IF c.found /\ c.name \in DOMAIN kvmap
    THEN setValue(a, symval(TRUE, kvmap[c.name]), symval(TRUE, c.value)).a
    ELSE a

RECURSIVE includeLines(_, _, _)
includeLines(a, kvmap, lines) ==
    IF lines = <<>> THEN Res(a, NoErr)
    ELSE includeLines(lineSet(a, kvmap, capture(Head(lines))), kvmap,
                      Tail(lines))

\* include in key selection mode, from the result k of the loop over the
\* keys on (the extractor is the default one)
includeKeyed(a, k, filename) ==
    IF k.err # NoErr THEN Res([a EXCEPT !.symbols = k.sy], k.err)
    ELSE IF Abs(filename) \notin DOMAIN Files
    THEN Res([a EXCEPT !.symbols = k.sy], Err("open", filename))
    ELSE includeLines([a EXCEPT !.symbols = k.sy], k.kvmap,
                      readLines(decode(Files[Abs(filename)]), ""))

includeKeys(a, filename, keys) ==
    includeKeyed(a, keysLoop(newNameValParser(a, keys), a.symbols, NoFunc),
                 filename)

\* an include that leaves its path in the cycle detector
deferredKeeps(r, path) == r

\* the deferred delete(o.parser.cycle, path), on the result r of include
deferred(r, path) == [r EXCEPT !.a.cycle = @ \ {path}]

\* include, from the values of the sub-parser's parameters on
includeFile(a, filename, keys, extractor) ==
    IF Abs(filename) \in a.cycle
    THEN Res(a, Err("cyclical include dependency with file", filename))
    ELSE deferred(
            IF Len(keys) = 0
            THEN includeBasic([a EXCEPT !.cycle = @ \cup {Abs(filename)}],
                              Abs(filename), extractor)
            ELSE includeKeys([a EXCEPT !.cycle = @ \cup {Abs(filename)}],
                             filename, keys),
            Abs(filename))

\* include, from the sub-parser as it parsed value on (its error is not
\* looked at)
includeLocal(a, local) ==
    includeFile(a, local.par[""].target.val, local.par["keys"].target.val,
                local.par["extractor"].target.val)

includeOperator(a, value) ==
    includeLocal(a, Parse(includeParser(a), value).a)

\* a comment operator that parses its value
skipOperatorParses(a, value) == Parse(a, value)

skipOperator(a, value) == Res(a, NoErr)

\* dump prints on standard error and changes nothing
dumpOperator(a, value) == Res(a, NoErr)

handle(a, op, value) ==
    CASE op = OpCond  -> condOperator(a, value)
      [] op = OpMacro -> macroOperator(a, value)
      [] op = OpReset -> resetOperator(a, value)
      [] op = OpSkip  -> skipOperator(a, value)
      [] op = OpDump  -> dumpOperator(a, value)
      [] op = OpInclude -> includeOperator(a, value)

----------------------------------------------------------------------------
(* The program's variables that are targets.                               *)

tString(id)  == [id |-> id, kind |-> "string", val |-> ""]
tInt(id)     == [id |-> id, kind |-> "int", val |-> 0]
tBool(id)    == [id |-> id, kind |-> "bool", val |-> FALSE]
tArray(id, elem, val) == [id |-> id, kind |-> "array", elem |-> elem, val |-> val]
tSlice(id, elem, val, cap) ==
    [id |-> id, kind |-> "slice", elem |-> elem, val |-> val, cap |-> cap]
tMap(id, key, elem) ==
    [id |-> id, kind |-> "map", key |-> key, elem |-> elem, val |-> NoFunc]

NoRes == [sym |-> "", sv |-> Nil, err |-> NoErr]

----------------------------------------------------------------------------
(* Bounds.                                                                 *)

\* the number of Parse calls made on a parser with symbols
MaxParse == 2

\* the number of Parse calls made on a parser with arrays and slices
MaxCalls == 3

----------------------------------------------------------------------------
(* Parse calls on a parser with scalar parameters and symbols.             *)

\* s is a string, also known as t; v is an optional verbatim string; the
\* anonymous parameter is an optional map from strings to strings
ScalarParser ==
    LET a1 == Aka(Def(NewParser, "s", tString("s")), "s", "t")
        a2 == Opt(Verbatim(Def(a1, "v", tString("v")), "v"), "v")
        a3 == Opt(Def(a2, "", tMap("m", "string", "string")), "")
    IN  a3

Frags == {"$a=x", "$a=y", "$b=$[a]", "reset=$a", "s=$[a]", "s=k", "t=m",
          "v=$[a]", "k=$[u]"}

Inputs == {""} \cup Frags \cup {f \o " " \o g : f \in Frags, g \in Frags}

Init ==
    /\ parser = ScalarParser
    /\ input = ""
    /\ err = NoErr
    /\ res = NoRes
    /\ nparse = 0

\* a.Parse(in) returns: r is the parser as the call left it with the errors
\* the call can return
Returns(in, r) ==
    /\ parser' = r.a
    /\ err' \in r.alts
    /\ input' = in
    /\ nparse' = nparse + 1
    /\ UNCHANGED res

ParseAct(in) == Returns(in, Parse(parser, in))

NextParse == nparse < MaxParse /\ \E in \in Inputs : ParseAct(in)

Spec == Init /\ [][NextParse]_vars

----------------------------------------------------------------------------
(* Properties.                                                             *)

\* sub occurs in text
Contains(text, sub) ==
    \E i \in 1..(Len(text) - Len(sub) + 1) :
        SubSeq(text, i, i + Len(sub) - 1) = sub

\* the last pair of in is frag
EndsWith(in, frag) ==
    /\ Len(in) >= Len(frag)
    /\ SubSeq(in, Len(in) - Len(frag) + 1, Len(in)) = frag

table == parser.symbols.table

\* C1: first wins. A symbol that is in the table before and after a Parse
\* call whose input does not reset it keeps the text of its first
\* definition, whatever definitions of it the input holds; and a reference
\* made after a later definition expands from the first text.
C1_FirstWins ==
    [][/\ \A sym \in DOMAIN table \cap DOMAIN table' :
            ~Contains(input', "reset=$" \o sym)
                => table'[sym].s = table[sym].s
       /\ ( /\ "a" \in DOMAIN table
            /\ table["a"].s \in {"x", "y"}
            /\ ~Contains(input', "reset=$a")
            /\ EndsWith(input', "s=$[a]")
            /\ err' = NoErr )
          => parser'.par["s"].target.val = table["a"].s
      ]_vars

\* a was defined as x by an earlier call, the last input defines it as y
\* and then refers to it
C1_Witness ==
    /\ nparse = 2
    /\ input = "$a=y s=$[a]"
    /\ err = NoErr
    /\ "a" \in DOMAIN table /\ table["a"].s = "x"
    /\ parser.par["s"].target.val = "x"

----------------------------------------------------------------------------
(* Parse calls on a parser with an integer, arrays and slices.             *)

\* i is an integer, also known as j; r is an array of two strings and sl a
\* slice of three strings with capacity three, both split at colons; z is
\* an array of length zero; the anonymous parameter is a nil slice of
\* integers
MultiParser ==
    LET a1 == Aka(Def(NewParser, "i", tInt("i")), "i", "j")
        a2 == Split(Def(a1, "r", tArray("r", "string", <<"", "">>)), "r", ":")
        a3 == Def(a2, "z", tArray("z", "string", <<>>))
        a4 == Split(Def(a3, "sl", tSlice("sl", "string", <<"d", "e", "f">>, 3)),
                    "sl", ":")
        a5 == Def(a4, "", tSlice("un", "int", <<>>, 0))
    IN  a5

MultiInputs == {"", "i=7", "j=010", "r=u", "r=v:w", "z=u", "sl=q:o", "010",
                "i=7 j=010", "r=u 12"}

InitMulti ==
    /\ parser = MultiParser
    /\ input = ""
    /\ err = NoErr
    /\ res = NoRes
    /\ nparse = 0

NextMulti == nparse < MaxCalls /\ \E in \in MultiInputs : ParseAct(in)

SpecMulti == InitMulti /\ [][NextMulti]_vars

----------------------------------------------------------------------------
(* What an input gives to a parameter, read off the input text. The inputs *)
(* are pairs and standalone values without quotes, separated by blanks.    *)

RECURSIVE Cut(_, _, _)
\* the pieces of text between the occurrences of the character sep
Cut(text, sep, piece) ==
    IF text = "" THEN <<piece>>
    ELSE IF SubSeq(text, 1, 1) = sep
    THEN <<piece>> \o Cut(Tail(text), sep, "")
    ELSE Cut(Tail(text), sep, piece \o SubSeq(text, 1, 1))

Words(in) == IF in = "" THEN <<>> ELSE Cut(in, " ", "")

NameOf(word) == IF Contains(word, "=") THEN Cut(word, "=", "")[1] ELSE ""

ValueOf(word) == IF Contains(word, "=") THEN Cut(word, "=", "")[2] ELSE word

RECURSIVE GivenFrom(_, _, _)
GivenFrom(words, names, colons) ==
    IF words = <<>> THEN <<>>
    ELSE (IF NameOf(Head(words)) \in names
          THEN IF colons THEN Cut(ValueOf(Head(words)), ":", "")
               ELSE <<ValueOf(Head(words))>>
          ELSE <<>>) \o GivenFrom(Tail(words), names, colons)

\* the values that input in gives to the parameter with these names, in
\* input order
Given(in, names, colons) == GivenFrom(Words(in), names, colons)

\* the integers that the texts of the inputs stand for
IntOf == ("7" :> 7) @@ ("010" :> 8) @@ ("12" :> 12)

\* C2: last wins. When a Parse call succeeds on an input that gives the
\* scalar i one or more values, under its name or its alias, the target
\* holds the conversion of the last of them.
C2_LastWins ==
    LET g == Given(input, {"i", "j"}, FALSE) IN
    (nparse > 0 /\ err = NoErr /\ g # <<>>)
        => parser.par["i"].target.val = IntOf[g[Len(g)]]

\* two values in one input, the last under the alias and in octal notation
C2_Witness ==
    /\ input = "i=7 j=010"
    /\ err = NoErr
    /\ parser.par["i"].target.val = 8

\* C3, as stated: the counter of a parameter with a limit above 0 never
\* exceeds the limit.
C3_CountWithinLimit ==
    \A n \in DOMAIN parser.par :
        parser.par[n].limit > 0 => parser.par[n].count <= parser.par[n].limit

\* C3, amended: the counter of an array or of a slice with a capacity above
\* 0 never exceeds the limit.
C3_MultiCountWithinLimit ==
    \A n \in DOMAIN parser.par :
        (parser.par[n].target.kind \in {"array", "slice"}
         /\ parser.par[n].limit > 0)
            => parser.par[n].count <= parser.par[n].limit

\* the slice of capacity three holds two values and two more were refused
C3_Witness ==
    /\ parser.par["sl"].count = 2
    /\ err.kind = "values specified, at most expected"
    /\ err.on = "sl"

\* C4: when a Parse call succeeds every array has its counter at its length
\* and every element set; the array of length zero never takes a value, an
\* input that gives it one fails, and the empty input succeeds when only
\* this array has received nothing.
C4_ArraysComplete ==
    /\ (nparse > 0 /\ err = NoErr)
         => /\ \A n \in DOMAIN parser.par :
                  parser.par[n].target.kind = "array"
                     => parser.par[n].count = Len(parser.par[n].target.val)
            /\ \A k \in 1..2 : parser.par["r"].target.val[k] # ""
    /\ parser.par["z"].count = 0
    /\ (nparse > 0 /\ Contains(input, "z=")) => err # NoErr
    /\ (nparse > 0 /\ input = "" /\ parser.par["r"].count = 2
        /\ parser.par["i"].count > 0) => err = NoErr

\* the empty input succeeds once r has its two values, z having none
C4_Witness ==
    /\ nparse > 0
    /\ input = ""
    /\ err = NoErr
    /\ parser.par["r"].target.val = <<"v", "w">>
    /\ parser.par["z"].count = 0

\* the values that the input of a step gives to r, to sl and to the
\* anonymous slice, converted
Conv(n, in) ==
    LET g == Given(in, {n}, n # "") IN
    IF n = "" THEN [k \in 1..Len(g) |-> IntOf[g[k]]] ELSE g

----------------------------------------------------------------------------
(* The definition of parameters on a new parser, then Parse on the empty   *)
(* input.                                                                  *)

\* the number of parameters defined on a parser
MaxDefs == 2

\* the names of the parameters, in the order of their definition
DefNames == <<"p", "q", "w", "y">>

\* the variables that a parameter can be defined on
Targets(id) ==
    {tString(id), [tString(id) EXCEPT !.val = "foo"], tInt(id),
     tArray(id, "string", <<>>), tArray(id, "string", <<"foo", "">>),
     tSlice(id, "string", <<>>, 0), tSlice(id, "string", <<"foo", "x">>, 2),
     tMap(id, "string", "int")}

defined == Len(parser.seq)

InitDef ==
    /\ parser = NewParser
    /\ input = ""
    /\ err = NoErr
    /\ res = NoRes
    /\ nparse = 0

\* a.Def(name, &target)
DefAct(name, target) ==
    /\ nparse = 0
    /\ defined < MaxDefs
    /\ name = DefNames[defined + 1]
    /\ ~DefPanics(parser, name, target)
    /\ parser' = Def(parser, name, target)
    /\ UNCHANGED <<input, err, res, nparse>>

\* p.Opt()
OptAct(n) ==
    /\ nparse = 0
    /\ ~OptPanics(parser, n)
    /\ parser' = Opt(parser, n)
    /\ UNCHANGED <<input, err, res, nparse>>

\* p.Scan(fooBarScanner)
ScanAct(n) ==
    /\ nparse = 0
    /\ ~ScanPanics(parser, n)
    /\ parser' = Scan(parser, n, "fooBarScanner")
    /\ UNCHANGED <<input, err, res, nparse>>

NextDef ==
    \/ \E name \in {DefNames[k] : k \in DOMAIN DefNames} :
          \E target \in Targets(name) : DefAct(name, target)
    \/ \E n \in DOMAIN parser.par : OptAct(n)
    \/ \E n \in DOMAIN parser.par : ScanAct(n)
    \/ nparse = 0 /\ ParseAct("")

SpecDef == InitDef /\ [][NextDef]_vars

single(n) == parser.par[n].target.kind \notin {"array", "slice"}

\* no parameter is mandatory: every single-valued parameter is optional
\* and every array has length zero
NoneMandatory ==
    \A n \in DOMAIN parser.par :
        /\ single(n) => parser.par[n].limit = 0
        /\ parser.par[n].target.kind = "array" => parser.par[n].target.val = <<>>

\* the custom scanner of parameter n takes its initial value: the scanner
\* takes the texts foo and bar for a string
DefaultTaken(n) ==
    LET p == parser.par[n] IN
    p.scan # NoScan =>
        CASE p.target.kind = "slice" ->
               \A k \in DOMAIN p.target.val : p.target.val[k] \in {"foo", "bar"}
          [] p.target.kind = "array" -> TRUE
          [] OTHER -> p.target.kind = "string" /\ p.target.val \in {"foo", "bar"}

\* C6, as stated: the empty input on a new parser succeeds exactly when no
\* parameter is mandatory.
C6_EmptyIffNoneMandatory ==
    nparse = 1 => (err = NoErr <=> NoneMandatory)

\* C6, amended: the empty input on a new parser succeeds exactly when no
\* parameter is mandatory and every custom scanner takes the initial value
\* of its optional single-valued parameter or the initial elements of its
\* slice; the error names a parameter that is the cause of it.
C6_EmptyInput ==
    nparse = 1 =>
        /\ err = NoErr <=> (NoneMandatory /\ \A n \in DOMAIN parser.par : DefaultTaken(n))
        /\ err.kind = "mandatory parameter not set"
             => single(err.on) /\ parser.par[err.on].limit # 0
        /\ err.kind = "values specified but exactly expected"
             => /\ parser.par[err.on].target.kind = "array"
                /\ parser.par[err.on].target.val # <<>>
        /\ err.kind \in {"invalid default value", "invalid default value at offset"}
             => ~DefaultTaken(err.on)
        /\ err.kind \in {"nil", "mandatory parameter not set",
                         "values specified but exactly expected",
                         "invalid default value",
                         "invalid default value at offset"}

\* no parameter is mandatory and the empty input fails on the initial value
\* of an optional string
C6_Witness ==
    /\ nparse = 1
    /\ NoneMandatory
    /\ err.kind = "invalid default value"
    /\ parser.par[err.on].limit = 0

----------------------------------------------------------------------------
(* The symbol table of a parser under put, get and reset.                  *)

Syms == {"a", "b", "c"}

Texts == {"x", "$[a]", "$[b]", "$[c]", "$[b]$[c]", "y$[c]"}

InitSym ==
    /\ parser = NewParser
    /\ input = ""
    /\ err = NoErr
    /\ res = NoRes
    /\ nparse = 0

\* a.symbols.put("$" + sym, value)
PutAct(sym, value) ==
    /\ parser' = [parser EXCEPT
                    !.symbols = put(parser.config, @, "$" \o sym, value)]
    /\ res' = NoRes
    /\ UNCHANGED <<input, err, nparse>>

\* a.symbols.get(sym)
GetReturns(sym, r) ==
    /\ parser' = [parser EXCEPT !.symbols = r.sy]
    /\ res' = [sym |-> sym, sv |-> r.sv, err |-> r.err]
    /\ UNCHANGED <<input, err, nparse>>

GetAct(sym) == GetReturns(sym, get(parser.config, parser.symbols, sym))

\* the operator reset on the value "$" + sym
ResetAct(sym) ==
    /\ parser' = resetOperator(parser, "$" \o sym).a
    /\ res' = NoRes
    /\ UNCHANGED <<input, err, nparse>>

NextSym ==
    \/ \E sym \in Syms, value \in Texts : PutAct(sym, value)
    \/ \E sym \in Syms : GetAct(sym)
    \/ \E sym \in Syms : ResetAct(sym)

SpecSym == InitSym /\ [][NextSym]_vars

\* the symbols that a text refers to
Refs(text) == {sym \in Syms : Contains(text, "$[" \o sym \o "]")}

\* the symbols that get scans the text of: those present and not flagged
\* as resolved
Scanned(t) == {sym \in DOMAIN t : ~t[sym].resolved}

RECURSIVE Reach(_, _, _)
\* the symbols reached from the symbols in from through the references of
\* the texts of the symbols in through
Reach(t, from, through) ==
    LET wider == from \cup UNION {Refs(t[sym].s) : sym \in from \cap through} IN
    IF wider = from THEN from ELSE Reach(t, wider, through)

\* a symbol met while get resolves sym is met again while it is resolved
CycleFrom(t, sym) ==
    \E n \in Reach(t, {sym}, Scanned(t)) \cap Scanned(t) :
        n \in Reach(t, Refs(t[n].s), Scanned(t))

\* a symbol that sym refers to, directly or not, refers to itself
SelfReference(t, sym) ==
    \E n \in Reach(t, {sym}, DOMAIN t) \cap DOMAIN t :
        n \in Reach(t, Refs(t[n].s), DOMAIN t)

isCycleError(e) == e.kind = "cyclical symbol definition detected"

\* C7: get returns, and it returns a cycle error exactly when a symbol met
\* during the resolution is met again through the references; without a
\* symbol that refers to itself, directly or not, there is no cycle error.
C7_CycleIffReachedAgain ==
    [][\A sym \in Syms :
          GetAct(sym) =>
             /\ isCycleError(res'.err) <=> CycleFrom(table, sym)
             /\ ~SelfReference(table, sym) => res'.err = NoErr
             /\ parser'.symbols.cycle = {}
      ]_vars

\* the get of a meets a again and gives the cycle error
C7_Witness ==
    /\ res.sym = "a" /\ isCycleError(res.err)
    /\ table["a"].s = "$[b]" /\ "b" \in DOMAIN table /\ table["b"].s = "$[a]"

\* C8, as stated: a get that resolves a present symbol stores the resolved
\* text in the entry, and a get that follows a get of the same symbol
\* returns the same text.
C8_GetStoresResolved ==
    [][\A sym \in Syms :
          GetAct(sym) =>
             /\ (res'.err = NoErr /\ ~res'.sv.nil /\ res'.sv.resolved)
                   => table'[sym].s = res'.sv.s
             /\ (res.sym = sym /\ res.err = NoErr /\ ~res.sv.nil)
                   => res'.sv.s = res.sv.s
      ]_vars

\* every symbol that sym refers to, directly or not, is in the table
AllPresent(t, sym) == Reach(t, {sym}, DOMAIN t) \subseteq DOMAIN t

\* C9, as stated: the flag that get returns for a present symbol says
\* whether every symbol its text refers to, directly or not, is in the
\* table.
C9_ResolvedIffAllPresent ==
    (res.sym # "" /\ res.err = NoErr /\ ~res.sv.nil)
        => (res.sv.resolved <=> AllPresent(table, res.sym))

\* the texts that the target of a parameter holds
Held(target) ==
    CASE target.kind = "string" -> {target.val}
      [] target.kind = "map" -> {target.val[k] : k \in DOMAIN target.val}
      [] target.kind \in {"array", "slice"} ->
           {target.val[k] : k \in DOMAIN target.val}
      [] OTHER -> {}

\* C10, as stated: a value with a reference to a symbol that is not defined
\* is never assigned to a parameter that is not verbatim; the inputs have
\* no escaped reference, so that a reference in a target is one that was
\* not resolved.
C10_NoUnresolvedAssigned ==
    \A n \in DOMAIN parser.par :
        ~parser.par[n].verbatim
            => \A text \in Held(parser.par[n].target) : ~Contains(text, "$[")


\* C37, as stated: no Parse call writes a text with a reference that was
\* not resolved into a target that is not verbatim, the entries of the
\* anonymous map included.
C37_NoUnresolvedWritten ==
    [][nparse' = nparse + 1 =>
        \A n \in DOMAIN parser'.par :
            ~parser'.par[n].verbatim
                => \A text \in Held(parser'.par[n].target)
                                  \ Held(parser.par[n].target) :
                       ~Contains(text, "$[")]_vars

----------------------------------------------------------------------------
(* Verbatim parameters.                                                    *)

\* the error of a Parse call that went through the whole input: nil, or
\* what verify found
reachedEnd(e) == e = NoErr \/ e.kind = "mandatory parameter not set"

\* C11: the verbatim v takes its value as the tokenizer gives it when the
\* pair is met. With v=$[a] as the last pair of an input that is parsed to
\* its end, v holds the text of a when a is defined at that moment and the
\* literal $[a] when it is not; with v=$[a] before the first definition of
\* a, v holds the literal although a is defined when Parse returns; and an
\* input without a pair for v leaves v as it is, whatever it defines.
C11_VerbatimSnapshot ==
    [][/\ (EndsWith(input', "v=$[a]") /\ reachedEnd(err'))
            => parser'.par["v"].target.val =
                  IF "a" \in DOMAIN table' THEN table'["a"].s ELSE "$[a]"
       /\ ("a" \notin DOMAIN table /\ input' = "v=$[a] $a=x")
            => /\ parser'.par["v"].target.val = "$[a]"
               /\ table'["a"].s = "x"
       /\ ~Contains(input', "v=")
            => parser'.par["v"].target.val = parser.par["v"].target.val
      ]_vars

\* v took the literal reference in the first call, and the second call
\* defined a
C11_Witness ==
    /\ nparse = 2
    /\ input = "$a=x s=k"
    /\ err = NoErr
    /\ "a" \in DOMAIN table
    /\ parser.par["v"].target.val = "$[a]"

----------------------------------------------------------------------------
(* Parse calls whose inputs use the reset operator.                        *)

\* the number of Parse calls made on the parser with reset
MaxOps == 3

\* s and w are optional strings
ResetParser ==
    LET a1 == Opt(Def(NewParser, "s", tString("s")), "s")
        a2 == Opt(Def(a1, "w", tString("w")), "w")
    IN  a2

ResetInputs == {"$a=x", "$a=y", "$c=$a", "s=$[a]", "reset=[$a $b]", "reset=a",
                "reset=$[c]", "reset=[$q=k $a]", "reset=[\\$[c]]",
                "reset=$a $a=y w=$[a]"}

InitReset ==
    /\ parser = ResetParser
    /\ input = ""
    /\ err = NoErr
    /\ res = NoRes
    /\ nparse = 0

NextReset == nparse < MaxOps /\ \E in \in ResetInputs : ParseAct(in)

SpecReset == InitReset /\ [][NextReset]_vars

\* C12: reset removes the symbols of its list that are in the table and
\* passes over those that are not, without error; after reset of a, the
\* definition that follows takes effect and a reference to a expands from
\* it.
C12_ResetThenDefine ==
    [][/\ input' = "reset=[$a $b]"
            => /\ err' = NoErr
               /\ DOMAIN table' = DOMAIN table \ {"a", "b"}
               /\ \A sym \in DOMAIN table' : table'[sym].s = table[sym].s
       /\ input' = "reset=$a $a=y w=$[a]"
            => /\ err' = NoErr
               /\ table'["a"].s = "y"
               /\ parser'.par["w"].target.val = "y"
      ]_vars

\* s was set from a when a was x; a later call reset a, defined it as y
\* and set w from it
C12_Witness ==
    /\ input = "reset=$a $a=y w=$[a]"
    /\ err = NoErr
    /\ parser.par["s"].target.val = "x"
    /\ parser.par["w"].target.val = "y"
    /\ table["a"].s = "y"

\* C20, as stated: the sub-parser of an operator works on the symbol table
\* of its parent. A definition among the sub-arguments of reset is in the
\* parent's table when Parse returns, and a reference that reaches the
\* sub-parser as a reference (its prefix is escaped in the input) is
\* resolved from the parent's table: with c defined as $a, the list of
\* reset is then $a, and a is removed.
C20_SubParserSharesSymbols ==
    [][/\ (input' = "reset=[$q=k $a]" /\ err' = NoErr)
            => "q" \in DOMAIN table'
       /\ ("c" \in DOMAIN table /\ input' = "reset=[\\$[c]]" /\ err' = NoErr)
            => "a" \notin DOMAIN table'
      ]_vars

\* C20, amended: the sub-parser of an operator has the configuration of its
\* parent and a symbol table of its own, empty at first. A definition among
\* the sub-arguments of reset is not in the parent's table when Parse
\* returns; a reference in the value of reset is resolved by the parent's
\* tokenizer before the sub-parser sees it (with c defined as $a, reset of
\* $[c] removes a); and a reference that reaches the sub-parser as a
\* reference stays as it is, so that nothing is removed.
C20_SubParserOwnTable ==
    [][/\ input' = "reset=[$q=k $a]"
            => /\ err' = NoErr
               /\ "q" \notin DOMAIN table'
               /\ DOMAIN table' = DOMAIN table \ {"a"}
       /\ ("c" \in DOMAIN table /\ input' = "reset=$[c]")
            => /\ err' = NoErr
               /\ "a" \notin DOMAIN table'
       /\ ("c" \in DOMAIN table /\ input' = "reset=[\\$[c]]")
            => /\ err' = NoErr
               /\ DOMAIN table' = DOMAIN table
      ]_vars

\* a was defined, s was set from it, and the reset whose sub-arguments
\* define q removed a
C20_Witness ==
    /\ nparse = 3
    /\ input = "reset=[$q=k $a]"
    /\ err = NoErr
    /\ parser.par["s"].target.val = "x"
    /\ DOMAIN table = {}

----------------------------------------------------------------------------
(* The tokenizer on its own: Reset on a text, then Next until the token is *)
(* the end or an error.                                                    *)

\* the longest text given to the tokenizer
MaxLen == 4

\* an ordinary character, its neighbour, white space and the five special
\* characters
Alphabet == {"a", "b", " ", "=", "\\", "[", "]", "$"}

RECURSIVE TextsUpTo(_)
TextsUpTo(n) ==
    IF n = 0 THEN {""}
    ELSE TextsUpTo(n - 1)
           \cup {t \o c : t \in {u \in TextsUpTo(n - 1) : Len(u) = n - 1},
                          c \in Alphabet}

\* the symbol a is defined as k, no other symbol is
TokParser ==
    [NewParser EXCEPT !.symbols = put(NewConfig, newSymtab, "$a", "k")]

\* res holds the tokenizer and the tokens it returned so far
InitTok ==
    /\ input \in TextsUpTo(MaxLen)
    /\ parser = TokParser
    /\ res = [t |-> Reset(newTokenizer(TokParser.config), input), toks |-> <<>>]
    /\ err = NoErr
    /\ nparse = 0

\* t.Next() returns r
NextReturns(r) ==
    /\ res' = [t |-> r.t,
               toks |-> Append(res.toks, [tok |-> r.tok, sv |-> r.sv])]
    /\ err' = r.err
    /\ parser' = [parser EXCEPT !.symbols = r.sy]
    /\ UNCHANGED <<input, nparse>>

\* t.Next(), called as long as the last token is a string or a separator
NextAct ==
    /\ IF res.toks = <<>> THEN TRUE
       ELSE res.toks[Len(res.toks)].tok \in {tokenString, tokenEqual}
    /\ NextReturns(Next(res.t, parser.symbols))

SpecTok == InitTok /\ [][NextAct]_vars

\* the tokenizer went through the input
Done ==
    /\ res.toks # <<>>
    /\ res.toks[Len(res.toks)].tok \notin {tokenString, tokenEqual}

Last == res.toks[Len(res.toks)]

\* the tokens are one string with the text s and the end
OneString(s) ==
    /\ Len(res.toks) = 2
    /\ res.toks[1].tok = tokenString /\ res.toks[1].sv.s = s
    /\ res.toks[2].tok = tokenEnd

\* the open quotes less the close quotes among the first i characters
RECURSIVE Depth(_, _)
Depth(t, i) ==
    IF i = 0 THEN 0
    ELSE Depth(t, i - 1) + (CASE Ch(t, i) = "[" -> 1
                              [] Ch(t, i) = "]" -> -1
                              [] OTHER -> 0)

\* no close quote of t comes before its open quote
NoEarlyClose(t) == \A i \in 1..Len(t) : Depth(t, i) >= 0

Balanced(t) == NoEarlyClose(t) /\ Depth(t, Len(t)) = 0

\* t has no escape and no symbol prefix
Plain(t) == \A i \in 1..Len(t) : Ch(t, i) \notin {"\\", "$"}

OnlyLetters(t) == \A i \in 1..Len(t) : Ch(t, i) \in {"a", "b"}

\* C13: the text between an open quote and a close quote, when its quotes
\* are balanced and it has no escape and no symbol prefix, is the text of
\* the one string token of the input: nested quotes, separators and white
\* space are kept.
C13_QuotedRoundTrip ==
    (Done /\ Len(input) >= 2
          /\ Ch(input, 1) = "[" /\ Ch(input, Len(input)) = "]"
          /\ Balanced(SubSeq(input, 2, Len(input) - 1))
          /\ Plain(input))
        => OneString(SubSeq(input, 2, Len(input) - 1))

\* a nested pair of quotes is kept
C13_Witness == Done /\ input = "[[]]" /\ OneString("[]")

\* the input ends where a quote, a symbol reference, a prefix or an escape
\* is open: after a text without escape and prefix whose quotes do not
\* close early comes the end with a quote still open, or an escape, a
\* prefix or the start of a reference and then the end
EndsOpen(in) ==
    \E i \in 0..Len(in) :
        LET u == SubSeq(in, 1, i)
            tail == SubSeq(in, i + 1, Len(in))
        IN  /\ Plain(u) /\ NoEarlyClose(u)
            /\ \/ tail = "" /\ Depth(u, Len(u)) > 0
               \/ tail \in {"\\", "$", "$[", "$[a", "$[b", "$[ab", "$[ba"}

\* a close quote of the input, which has no escape and no prefix, comes
\* when no quote is open
ClosesEarly(in) == Plain(in) /\ ~NoEarlyClose(in)

\* C14: a close quote outside any open quote gives the error premature
\* close quote, the end of the input where a quote, a reference, a prefix
\* or an escape is open gives the error premature end of input, and the
\* tokenizer returns no string for the unbalanced text: when the input has
\* no white space and no separator, the error is its only token.
C14_UnbalancedIsError ==
    Done =>
       /\ ClosesEarly(input)
            => Last.tok = tokenError /\ err.kind = "premature close quote"
       /\ EndsOpen(input)
            => Last.tok = tokenError /\ err.kind = "premature end of input"
       /\ ((ClosesEarly(input) \/ EndsOpen(input))
             /\ \A i \in 1..Len(input) : Ch(input, i) \notin {" ", "="})
            => Len(res.toks) = 1
       /\ (ClosesEarly(input) \/ EndsOpen(input))
            => \A i \in 1..Len(res.toks) - 1 :
                  res.toks[i].tok = tokenString => Balanced(res.toks[i].sv.s)

\* a word, then a word whose quote stays open: one string and the error
C14_Witness ==
    /\ Done /\ input = "a [b"
    /\ Len(res.toks) = 2
    /\ res.toks[1].tok = tokenString /\ res.toks[1].sv.s = "a"
    /\ Last.tok = tokenError /\ err.kind = "premature end of input"

\* what an escape followed by c puts into the string
KeptAs(c) ==
    IF c \in {" ", "=", "\\", "[", "]", "$"} THEN c ELSE "\\" \o c

\* the strings text stands for when it is letters, one escape followed by
\* a character, and letters: at most one
Unescaped(text) ==
    {SubSeq(text, 1, i - 1) \o KeptAs(Ch(text, i + 1))
        \o SubSeq(text, i + 2, Len(text)) :
       i \in {j \in 1..Len(text) - 1 :
                /\ Ch(text, j) = "\\"
                /\ OnlyLetters(SubSeq(text, 1, j - 1))
                /\ OnlyLetters(SubSeq(text, j + 2, Len(text)))}}

\* C15: an escape followed by white space or by a special character puts
\* that character into the string as ordinary text, and an escape followed
\* by another character puts the escape and the character into it: a word
\* of letters with one escaped character is one string token, between
\* quotes as well as outside.
C15_Escape ==
    Done =>
       /\ \A s \in Unescaped(input) : OneString(s)
       /\ (Len(input) >= 2 /\ Ch(input, 1) = "[" /\ Ch(input, Len(input)) = "]")
            => \A s \in Unescaped(SubSeq(input, 2, Len(input) - 1)) : OneString(s)

\* an escaped separator between two letters does not separate
C15_Witness == Done /\ input = "a\\=b" /\ OneString("a=b")

\* the places of the input where a symbol prefix is met outside a reference
\* and not escaped: what comes before has no escape and no prefix, and its
\* quotes do not close early
PrefixAt(in) ==
    {i \in 1..Len(in) :
        /\ Ch(in, i) = "$"
        /\ Plain(SubSeq(in, 1, i - 1))
        /\ NoEarlyClose(SubSeq(in, 1, i - 1))}

\* C16: a symbol prefix that is not escaped is followed by an open quote,
\* which starts a symbol reference, or by an ordinary character, which is
\* text with the prefix; followed by white space, a separator, an escape, a
\* close quote, a prefix or the end of the input it is an error of the
\* tokenizer, between quotes as well as outside.
C16_Prefix ==
    Done =>
       /\ \A i \in PrefixAt(input) :
             (i = Len(input) \/ Ch(input, i + 1) \in {" ", "=", "\\", "]", "$"})
                => /\ Last.tok = tokenError
                   /\ err.kind = IF i = Len(input) THEN "premature end of input"
                                 ELSE "character invalid in symbol"
                   /\ \A k \in 1..Len(res.toks) :
                         res.toks[k].tok = tokenString
                            => ~Contains(res.toks[k].sv.s, "$")
       /\ \A i \in PrefixAt(input) :
             (i < Len(input) /\ OnlyLetters(SubSeq(input, 1, i - 1))
                /\ Len(input) > i /\ OnlyLetters(SubSeq(input, i + 1, Len(input))))
                => OneString(input)
       /\ input = "$[a]" => OneString("k") /\ res.toks[1].sv.resolved
       /\ input = "$[b]" => OneString("$[b]") /\ ~res.toks[1].sv.resolved
       /\ input = "[$a]" => OneString("$a")

\* a prefix followed by white space between quotes
C16_Witness ==
    /\ Done /\ input = "[$ ]"
    /\ Len(res.toks) = 1
    /\ Last.tok = tokenError /\ err.kind = "character invalid in symbol"

----------------------------------------------------------------------------
(* The name-value extractor on its own: next until the end or an error.    *)

\* the longest text given to the name-value extractor
MaxPairLen == 5

PairAlphabet == {"a", "b", " ", "="}

RECURSIVE PairTextsUpTo(_)
PairTextsUpTo(n) ==
    IF n = 0 THEN {""}
    ELSE PairTextsUpTo(n - 1)
           \cup {t \o c : t \in {u \in PairTextsUpTo(n - 1) : Len(u) = n - 1},
                          c \in PairAlphabet}

\* res holds the extractor and what it returned so far
InitPairs ==
    /\ input \in PairTextsUpTo(MaxPairLen)
    /\ parser = NewParser
    /\ res = [nvp |-> newNameValParser(NewParser, input), pairs |-> <<>>]
    /\ err = NoErr
    /\ nparse = 0

\* nvp.next() returns r
NextPairReturns(r) ==
    /\ res' = [nvp |-> r.nvp,
               pairs |-> Append(res.pairs, [name |-> r.name, value |-> r.value])]
    /\ err' = r.err
    /\ parser' = [parser EXCEPT !.symbols = r.sy]
    /\ UNCHANGED <<input, nparse>>

\* nvp.next(), called as long as the last call returned a value
NextPairAct ==
    /\ IF res.pairs = <<>> THEN TRUE
       ELSE ~res.pairs[Len(res.pairs)].value.nil
    /\ NextPairReturns(next(res.nvp, parser.symbols))

SpecPairs == InitPairs /\ [][NextPairAct]_vars

\* the extractor went through the input
PairsDone ==
    /\ res.pairs # <<>>
    /\ res.pairs[Len(res.pairs)].value.nil

\* the tokens of a text without quotes, escapes and prefixes, read off the
\* text: the separators, and the words between white space and separators
RECURSIVE WordTokens(_, _)
WordTokens(text, word) ==
    LET flush == IF word = "" THEN <<>> ELSE <<word>> IN
    IF text = "" THEN flush
    ELSE IF Ch(text, 1) = " "
    THEN flush \o WordTokens(SubSeq(text, 2, Len(text)), "")
    ELSE IF Ch(text, 1) = "="
    THEN flush \o <<"=">> \o WordTokens(SubSeq(text, 2, Len(text)), "")
    ELSE WordTokens(SubSeq(text, 2, Len(text)), word \o Ch(text, 1))

\* the pairs that the tokens from the i-th on stand for, and whether they
\* end with an error: a word, a separator and a word are a name and a value;
\* a word not followed by a separator is a value without a name; a
\* separator that does not follow a word, or that is followed by the end or
\* by a separator, is an error
RECURSIVE PairsFrom(_, _)
PairsFrom(toks, i) ==
    IF i > Len(toks) THEN [pairs |-> <<>>, bad |-> FALSE]
    ELSE IF toks[i] = "=" THEN [pairs |-> <<>>, bad |-> TRUE]
    ELSE IF i + 1 <= Len(toks) /\ toks[i + 1] = "="
    THEN IF i + 2 <= Len(toks) /\ toks[i + 2] # "="
         THEN LET rest == PairsFrom(toks, i + 3) IN
              [pairs |-> <<[name |-> symval(TRUE, toks[i]),
                            value |-> symval(TRUE, toks[i + 2])]>> \o rest.pairs,
               bad |-> rest.bad]
         ELSE [pairs |-> <<>>, bad |-> TRUE]
    ELSE LET rest == PairsFrom(toks, i + 1) IN
         [pairs |-> <<[name |-> Nil, value |-> symval(TRUE, toks[i])]>>
                      \o rest.pairs,
          bad |-> rest.bad]

\* C17: the extractor returns the pairs of the input in the order of the
\* input: name and value for a word, a separator and a word, a value
\* without a name for a word not followed by a separator, and an error,
\* which ends the stream, for a separator that does not follow a word or
\* that is followed by the end or by another separator.
C17_PairsInOrder ==
    PairsDone =>
        LET want == PairsFrom(WordTokens(input, ""), 1) IN
        /\ SubSeq(res.pairs, 1, Len(res.pairs) - 1) = want.pairs
        /\ res.pairs[Len(res.pairs)].name.nil
        /\ want.bad <=> err # NoErr
        /\ err # NoErr
             => err.kind \in {"separator unexpected", "premature end of input"}

\* a value without a name, then a name and a value
C17_Witness ==
    /\ PairsDone /\ input = "a b=a"
    /\ err = NoErr
    /\ Len(res.pairs) = 3
    /\ res.pairs[1] = [name |-> Nil, value |-> symval(TRUE, "a")]
    /\ res.pairs[2] = [name |-> symval(TRUE, "b"), value |-> symval(TRUE, "a")]

----------------------------------------------------------------------------
(* Parse calls with standalone values, on a parser with and without an     *)
(* anonymous parameter.                                                    *)

\* the number of Parse calls made on the parser with standalone values
MaxStand == 2

\* f is an optional bool, also known as g; n is an optional string; h is a
\* slice of at most two bools; the anonymous parameter, if there is one, is
\* a slice of strings without limit
StandParser(anonymous) ==
    LET a1 == Opt(Aka(Def(NewParser, "f", tBool("f")), "f", "g"), "f")
        a2 == Opt(Def(a1, "n", tString("n")), "n")
        a3 == Def(a2, "h", tSlice("h", "bool", <<>>, 2))
    IN  IF anonymous THEN Def(a3, "", tSlice("un", "string", <<>>, 0)) ELSE a3

StandInputs == {"k", "[]=k", "n", "[]=n", "f", "g", "h", "[]=f", "$[u]",
                "[]=$[u]", "f=false", "k f"}

InitStand ==
    /\ parser \in {StandParser(TRUE), StandParser(FALSE)}
    /\ input = ""
    /\ err = NoErr
    /\ res = NoRes
    /\ nparse = 0

NextStand == nparse < MaxStand /\ \E in \in StandInputs : ParseAct(in)

SpecStand == InitStand /\ [][NextStand]_vars

\* the values of the anonymous parameter
anonymousValues(a) == a.par[""].target.val

C19_StandaloneBoolName ==
    [][/\ \A w \in {"f", "g", "h"} :
             input' = w =>
                /\ parser' = Parse(parser, w \o "=true").a
                /\ err' \in Parse(parser, w \o "=true").alts
                /\ "" \in DOMAIN parser.params
                     => anonymousValues(parser') = anonymousValues(parser)
       /\ input' \in {"f", "g"}
             => /\ err' = NoErr
                /\ parser'.par["f"].target.val = TRUE
                /\ parser'.par["f"].count = parser.par["f"].count + 1
       /\ (input' = "h" /\ parser.par["h"].count < 2)
             => /\ err' = NoErr
                /\ parser'.par["h"].target.val
                     = Append(parser.par["h"].target.val, TRUE)
      ]_vars

\* f was set to false, and then to true by its synonym as a standalone
\* value
C19_Witness ==
    /\ nparse = 2
    /\ input = "g"
    /\ err = NoErr
    /\ parser.par["f"].count = 2
    /\ parser.par["f"].target.val = TRUE
    /\ "" \in DOMAIN parser.params /\ anonymousValues(parser) = <<>>

----------------------------------------------------------------------------
(* Values beyond the limit of an array or of a slice.                      *)

\* the errors of parseArrayValues and parseSliceValues for too many values
Overflow == {"too many values specified", "values specified, at most expected"}

\* C29: a Parse call that ends on the refusal of the values given to an
\* array or to a bounded slice leaves the elements and the counter of that
\* parameter as they were before the call, and a call that then gives the
\* array the values it still lacks fills it.
C29_OverflowRejectedWhole ==
    [][/\ err'.kind \in Overflow
            => parser'.par[err'.on] = parser.par[err'.on]
       /\ (err.kind \in Overflow /\ err.on = "r" /\ input' = "r=u"
           /\ parser.par["r"].count = 1)
            => /\ parser'.par["r"].count = 2
               /\ parser'.par["r"].target.val[2] = "u"]_vars

\* the array of two holds one value and two more have just been refused
C29_Witness ==
    /\ input = "r=v:w"
    /\ err.kind = "too many values specified"
    /\ err.on = "r"
    /\ parser.par["r"].count = 1
    /\ parser.par["r"].target.val = <<"u", "">>

----------------------------------------------------------------------------
(* The pairs of an input, one after the other.                             *)

\* what Parse leaves of the pairs f and g when g is reached: the parser as
\* the pair f left it, then as the pair g left it when g fails
SecondPair(r1, g, p, e) ==
    parse(r1.a, g).err # NoErr => (p = parse(r1.a, g).a /\ e = parse(r1.a, g).err)

\* what Parse leaves of the pairs f and g: the parser and the error of f
\* alone when f fails
FirstPair(r1, g, p, e) ==
    IF r1.err # NoErr THEN p = r1.a /\ e = r1.err ELSE SecondPair(r1, g, p, e)

\* C28: a Parse call on two pairs that fails on the first leaves the parser
\* as the first pair alone leaves it, whatever the second pair is, and
\* returns the error of the first; a call that fails on the second leaves
\* the parser with all that the first pair changed and returns the error of
\* the second. A value that cannot be resolved fails its pair and changes
\* nothing.
C28_StopsAtFirstError ==
    [][/\ \A f, g \in Frags :
            input' = f \o " " \o g => FirstPair(parse(parser, f), g, parser', err')
       /\ "a" \notin DOMAIN parser.symbols.table
            => /\ \A g \in Frags :
                    input' = "s=$[a] " \o g
                        => (err'.kind = "cannot resolve value" /\ parser' = parser)
               /\ \A f \in {"t=m", "s=k", "k=$[u]"} :
                    input' = f \o " s=$[a]"
                        => (err'.kind = "cannot resolve value"
                            /\ parser' = parse(parser, f).a)]_vars

\* the first pair has set s and the second pair failed
C28_Witness ==
    /\ input = "t=m s=$[a]"
    /\ err.kind = "cannot resolve value"
    /\ parser.par["s"].target.val = "m"
    /\ parser.par["s"].count = 1

----------------------------------------------------------------------------
(* Parse calls with the operators cond, macro, include and --.             *)

\* the number of Parse calls made on the parser with operators
MaxOper == 2

\* s and w are strings, both mandatory or both optional
OperParser(mandatory) ==
    LET a1 == Def(Def(NewParser, "s", tString("s")), "w", tString("w")) IN
    IF mandatory THEN a1 ELSE Opt(Opt(a1, "s"), "w")

CondInputs == {"cond=[if=$a then=[s=k] else=[s=m]]",
               "cond=[if=s then=[w=q]]",
               "cond=[if=w then=[s=k] else=[s=m]]",
               "cond=[if=x then=[s=k]]",
               "cond=[if=$a then=[s=k]]",
               "cond=[if=$u then=[s=k] else=[s=m]] w=q"}

MacroInputs == {"$m=[s=$[a]]", "macro=$m", "macro=[$m $n]",
                "macro=[$m x=1 $n]", "reset=[$a x=1 $m]",
                "$m=[s=$[a]] $a=y",
                "$m=[s=$[a]] $a=x macro=$m reset=$a $a=y macro=$m"}

SkipInputs == {"--=[s=k $a=y]", "--=[$[a]]", "--=[$ ]", "--=[a [b] c]"}

IncludeInputs == {"include=k", "include=m", "include=e", "include=n",
                  "include=p", "include=i", "include=zz", "include=k w=q",
                  "include=[g keys=[s]]", "include=[k extractor=r]"}

OperInputs ==
    {"$a=x", "reset=$a", "s=j", "w=q"}
        \cup CondInputs \cup MacroInputs \cup SkipInputs \cup IncludeInputs

InitOper ==
    /\ parser \in {OperParser(TRUE), OperParser(FALSE)}
    /\ input = ""
    /\ err = NoErr
    /\ res = NoRes
    /\ nparse = 0

NextOper == nparse < MaxOper /\ \E in \in OperInputs : ParseAct(in)

SpecOper == InitOper /\ [][NextOper]_vars

\* the parser's parameters are optional
Optional == parser.par["s"].limit = 0

\* the value of the string parameter n
StringOf(a, n) == a.par[n].target.val

\* the parser a after one more value, val, was given to the string n
Given1(a, n, val) ==
    [a EXCEPT !.par[n].target.val = val, !.par[n].count = @ + 1]

\* C22: cond with a symbol as its condition parses the text of then when the
\* symbol is in the symbol table and otherwise the text of else, if there is
\* one; with a parameter's name it parses the text of then when the parameter
\* has received a value and otherwise the text of else, if there is one; it
\* fails and changes nothing when the name is not the name of a parameter.
\* Exactly one value is given when a text is parsed, none when no text is.
C22_Cond ==
    [][/\ input' = "cond=[if=$a then=[s=k] else=[s=m]]"
            => parser' = Given1(parser, "s",
                    IF "a" \in DOMAIN parser.symbols.table THEN "k" ELSE "m")
       /\ input' = "cond=[if=$a then=[s=k]]"
            => parser' = IF "a" \in DOMAIN parser.symbols.table
                         THEN Given1(parser, "s", "k") ELSE parser
       /\ input' = "cond=[if=w then=[s=k] else=[s=m]]"
            => parser' = Given1(parser, "s",
                    IF parser.par["w"].count > 0 THEN "k" ELSE "m")
       /\ input' = "cond=[if=s then=[w=q]]"
            => parser' = IF parser.par["s"].count > 0
                         THEN Given1(parser, "w", "q") ELSE parser
       /\ input' = "cond=[if=x then=[s=k]]"
            => (parser' = parser /\ err'.kind = "cond/if: parameter not defined")
      ]_vars

\* w had received a value and cond has parsed the text of then
C22_Witness ==
    /\ input = "cond=[if=w then=[s=k] else=[s=m]]"
    /\ parser.par["w"].count = 1
    /\ StringOf(parser, "s") = "k"
    /\ err = NoErr

\* C23, as stated: a mandatory parameter that is set later in the input does
\* not make cond or include fail; the first Parse call on the parser with
\* the mandatory s and w succeeds when an operator sets s and the pair
\* after the operator sets w.
C23_VerifiedOnceAtTheEnd ==
    (nparse = 1 /\ ~Optional
     /\ input \in {"cond=[if=$u then=[s=k] else=[s=m]] w=q", "include=k w=q"})
        => err = NoErr

\* C21, as stated: an operator whose sub-parser fails on a sub-argument, here
\* the pair x=1 of an undefined sub-parameter, fails with the sub-parser's
\* error and does not remove a symbol nor parse the text of one.
C21_SubParserErrorStops ==
    [][input' \in {"reset=[$a x=1 $m]", "macro=[$m x=1 $n]"}
        => (err'.kind = "parameter not defined" /\ parser' = parser)]_vars

Cyclical == "cyclical include dependency with file"

\* C24: the file p includes q and q includes ./p, which is p: the include of
\* p fails with the cyclical-include error of the file name met again; an
\* include of a file that was included before, in an earlier call or earlier
\* in the same file, does not fail with that error; and no path is left in
\* the cycle detector when Parse returns.
C24_IncludeCycle ==
    /\ parser.cycle = {}
    /\ (nparse > 0 /\ input = "include=p")
         => (err.kind = Cyclical /\ err.arg = "./p")
    /\ (nparse > 0 /\ input \in IncludeInputs \ {"include=p"})
         => err.kind # Cyclical
    /\ (nparse > 0 /\ input = "include=i" /\ Optional)
         => /\ err = NoErr
            /\ StringOf(parser, "s") = "k"
            /\ parser.par["s"].count >= 2

\* the include of p was refused as cyclical after k had been included
C24_Witness ==
    /\ nparse = 2
    /\ input = "include=p"
    /\ err.kind = Cyclical
    /\ StringOf(parser, "s") = "k"
    /\ parser.cycle = {}

\* C25, as stated: include passes the bytes of the file to the parser
\* without a leading byte order mark and otherwise unchanged, whatever the
\* length of the file: the parser and the error are those of Parse on the
\* text of the file, and the include of the empty file succeeds and changes
\* nothing.
C25_BomStripped ==
    [][/\ input' = "include=e"
            => (parser' = parser /\ err' \in Parse(parser, "").alts)
       /\ input' = "include=m"
            => (parser' = Parse(parser, "s=k").a
                /\ err' \in Parse(parser, "s=k").alts)
       /\ input' = "include=k"
            => (parser' = Parse(parser, "s=k").a
                /\ err' \in Parse(parser, "s=k").alts)
       /\ input' = "include=n"
            => (parser' = Parse(parser, decode(Files["/d/n"])).a
                /\ err' \in Parse(parser, decode(Files["/d/n"])).alts)]_vars

\* C26: macro parses the text that the table holds for the symbol m: the
\* reference to a in the text is resolved when macro runs, with the value
\* that a has then, and macro fails when a has none; in one input, after a
\* reset and a new definition of a, a second macro gives s the new value;
\* macro fails and changes nothing when one of its symbols is not defined,
\* whether it comes first or last.
C26_Macro ==
    [][/\ (input' = "macro=$m" /\ "m" \in DOMAIN parser.symbols.table
           /\ parser.symbols.table["m"].s = "s=$[a]")
            => IF "a" \in DOMAIN parser.symbols.table
               THEN /\ StringOf(parser', "s") = parser.symbols.table["a"].s
                    /\ parser'.par["s"].count = parser.par["s"].count + 1
               ELSE /\ err'.kind = "macro: parsing failed"
                    /\ parser' = parser
       /\ (input' = "$m=[s=$[a]] $a=x macro=$m reset=$a $a=y macro=$m"
           /\ DOMAIN parser.symbols.table = {} /\ Optional)
            => /\ err' = NoErr
               /\ StringOf(parser', "s") = "y"
               /\ parser'.par["s"].count = parser.par["s"].count + 2
               /\ parser'.symbols.table["m"].s = "s=$[a]"
       /\ input' = "macro=[$m $n]"
            => (err'.kind = "macro: symbol undefined" /\ parser' = parser)]_vars

\* the second macro of the input has given s the value of the new a
C26_Witness ==
    /\ input = "$m=[s=$[a]] $a=x macro=$m reset=$a $a=y macro=$m"
    /\ err = NoErr
    /\ StringOf(parser, "s") = "y"
    /\ parser.par["s"].count = 2

\* the texts of the symbols of a
SymbolTexts(a) == [x \in DOMAIN a.symbols.table |-> a.symbols.table[x].s]

\* C27, as stated: -- with a value whose quotes are balanced succeeds and
\* changes nothing in the parser.
C27_SkipChangesNothing ==
    [][input' \in SkipInputs
        => (parser' = parser /\ (Optional => err' = NoErr))]_vars

\* C27, amended: -- with a value in which every symbol prefix starts a
\* reference succeeds and changes no parameter and no text of a symbol.
C27_SkipKeepsValues ==
    [][input' \in {"--=[s=k $a=y]", "--=[$[a]]", "--=[a [b] c]"}
        => /\ Optional => err' = NoErr
           /\ err'.on # "--"
           /\ parser'.par = parser.par
           /\ SymbolTexts(parser') = SymbolTexts(parser)
           /\ parser'.cycle = parser.cycle]_vars

\* the value of -- held a pair for s and a definition of a, and neither was
\* taken
C27_Witness ==
    /\ input = "--=[s=k $a=y]"
    /\ nparse = 2
    /\ err = NoErr
    /\ parser.par["s"].count = 0
    /\ StringOf(parser, "w") = "q"
    /\ "a" \notin DOMAIN parser.symbols.table

\* the place of the name n in the sequence seq
Place(seq, n) == CHOOSE i \in 1..Len(seq) : seq[i] = n

\* C30, as stated: when the verification fails, the error that Parse returns
\* is the error of the parameter defined first among those that fail.
C30_FirstDefinedFails ==
    (nparse > 0 /\ err.kind = "mandatory parameter not set")
        => \A e \in verify(parser) :
              Place(parser.seq, err.on) <= Place(parser.seq, e.on)

----------------------------------------------------------------------------
(* A Config in the hands of the caller, and a parser made from it.         *)

\* the number of calls made on the Config and on the parser
MaxConf == 4

SetChars == {"&", "@", "=", " ", "a"}

SetNames == {<<OpReset, "r">>, <<OpReset, "cond">>, <<OpSkip, "a b">>}

ConfInputs == {"$a=x s=$[a]", "&a=x s=&[a]", "reset=$a", "reset=&a",
               "reset=@a", "r=$a"}

Synonyms == {"t", "reset", "s", "a b"}

\* the caller's Config after its last call, the panic of that call and the
\* last call made
Caller(c, panic, op, calls) ==
    [config |-> c, panic |-> panic, op |-> op, calls |-> calls]

\* the parser with the optional string s
ConfParser(c) == Opt(Def(CustomParser(c), "s", tString("s")), "s")

InitConf ==
    /\ parser = ConfParser(NewConfig)
    /\ input = ""
    /\ err = NoErr
    /\ res = Caller(NewConfig, "", "NewConfig", 0)
    /\ nparse = 0

\* a method of Config returns or panics: r is its result; a parser that
\* holds the Config at the caller's address sees the change
ConfReturns(r, op) ==
    /\ res' = Caller(r.c, r.panic, op, res.calls + 1)
    /\ parser' = IF parser.config.at = res.config.at
                 THEN [parser EXCEPT !.config = r.c]
                 ELSE parser
    /\ UNCHANGED <<input, err, nparse>>

SetSpecialAct(spec, ch) ==
    ConfReturns(SetSpecial(res.config, spec, ch), "SetSpecial")

SetOpNameAct(op, name) ==
    ConfReturns(SetOpName(res.config, op, name), "SetOpName")

\* a new parser is made from the caller's Config
CustomParserAct ==
    /\ parser' = ConfParser(res.config)
    /\ res' = Caller(res.config, "", "CustomParser", res.calls + 1)
    /\ UNCHANGED <<input, err, nparse>>

\* a synonym is given to the parameter s
AkaAct(alias) ==
    /\ ~AkaPanics(parser, "s", alias)
    /\ parser' = Aka(parser, "s", alias)
    /\ res' = Caller(res.config, "", "Aka", res.calls + 1)
    /\ UNCHANGED <<input, err, nparse>>

\* a.Parse(in) returns r
ConfParsed(in, r) ==
    /\ parser' = r.a
    /\ err' \in r.alts
    /\ input' = in
    /\ nparse' = nparse + 1
    /\ res' = [res EXCEPT !.op = "Parse", !.panic = ""]

ConfParseAct(in) == ConfParsed(in, Parse(parser, in))

NextConf ==
    /\ res.calls + nparse < MaxConf
    /\ \/ \E spec \in DOMAIN NewConfig.specList, ch \in SetChars :
              SetSpecialAct(spec, ch)
       \/ \E n \in SetNames : SetOpNameAct(n[1], n[2])
       \/ CustomParserAct
       \/ \E alias \in Synonyms : AkaAct(alias)
       \/ \E in \in ConfInputs : ConfParseAct(in)

SpecConf == InitConf /\ [][NextConf]_vars

\* the symbol prefix of the Config c
Prefix(c) == GetSpecial(c, SpecSymbolPrefix)

\* C31: a call of SetSpecial or of SetOpName on the caller's Config leaves
\* the parser as it was, with its special characters and operator names;
\* a parser made when the caller's prefix was & and called after the caller
\* changed it to @ takes &a for a symbol and refuses @a as the symbol of
\* reset.
C31_PrivateCopy ==
    [][/\ res'.op \in {"SetSpecial", "SetOpName"} /\ res'.calls > res.calls
            => parser' = parser
       /\ (nparse' = nparse + 1 /\ Prefix(res.config) = "@"
           /\ parser.config.opDict = NewConfig.opDict
           /\ parser.config.specList =
                  [NewConfig.specList EXCEPT ![SpecSymbolPrefix] = "&"])
            => /\ input' = "reset=@a"
                    => err'.kind = "reset: symbol prefix missing"
               /\ input' = "&a=x s=&[a]"
                    => StringOf(parser', "s")
                          = parser'.symbols.table["a"].s]_vars

\* the caller's prefix is @, the parser's is &, and the parser has taken &a
\* for a symbol
C31_Witness ==
    /\ res.op = "Parse"
    /\ Prefix(res.config) = "@"
    /\ Prefix(parser.config) = "&"
    /\ input = "&a=x s=&[a]"
    /\ err = NoErr
    /\ StringOf(parser, "s") = "x"

\* C32: the five special characters of the caller's Config are distinct and
\* each is a valid special character; a call of SetSpecial that panics
\* leaves the Config as it was, and a call with a character that is not
\* valid or that another special already has panics.
C32_SpecialsDistinct ==
    [][/\ \A i, j \in DOMAIN res'.config.specList :
            i # j => res'.config.specList[i] # res'.config.specList[j]
       /\ \A i \in DOMAIN res'.config.specList :
            /\ res'.config.specList[i] \notin
                  Letters \cup Digits \cup {"-", "_", " ", "\n", "\t"}
       /\ (res'.op = "SetSpecial" /\ res'.panic # "")
            => res'.config = res.config
       /\ (res'.op = "SetSpecial" /\ res'.calls > res.calls
           /\ res'.panic = "")
            => \E i \in DOMAIN res.config.specList :
                  /\ res'.config.specList[i] \in SetChars \ {" ", "a"}
                  /\ res'.config = [res.config EXCEPT
                        !.specList[i] = res'.config.specList[i]]]_vars

\* the prefix was changed and a call that gives the separator the same
\* character has panicked
C32_Witness ==
    /\ res.op = "SetSpecial"
    /\ res.panic = "already used"
    /\ Prefix(res.config) = "&"
    /\ GetSpecial(res.config, SpecSeparator) = "="

\* C33, as stated: no name or synonym of a parameter of the parser is the
\* name of an operator of the parser.
C33_NoOperatorName ==
    \A name \in DOMAIN parser.params : operator(parser, name) = NoOp

\* the limit that Def gives to a parameter with the target t
DefLimit(t) ==
    CASE t.kind = "array" -> Len(t.val)
      [] t.kind = "slice" -> t.cap
      [] OTHER -> 1

\* C34, as stated: the limit of a parameter whose target is an array, a
\* slice or a map is the limit that Def gave it, whatever calls of Opt were
\* made.
C34_OptOnlyScalars ==
    \A n \in DOMAIN parser.par :
        parser.par[n].target.kind \in {"array", "slice", "map"}
            => parser.par[n].limit = DefLimit(parser.par[n].target)

\* C34, amended: the limit of a parameter whose target is an array or a
\* slice is the limit that Def gave it, whatever calls of Opt were made; the
\* limit of any other parameter, a map included, is 0 once Opt was called on
\* it and 1 before.
C34_OptNotMultiValued ==
    [][/\ \A n \in DOMAIN parser'.par :
            IF parser'.par[n].target.kind \in {"array", "slice"}
            THEN parser'.par[n].limit = DefLimit(parser'.par[n].target)
            ELSE parser'.par[n].limit \in {0, 1}
       /\ \A n \in DOMAIN parser.par :
            (parser'.par[n].limit # parser.par[n].limit)
                => (~OptPanics(parser, n) /\ parser' = Opt(parser, n)
                    /\ reflLen(parser.par[n].target) = -1)]_vars

\* an array of two was defined and kept its limit, and a map was made
\* optional
C34_Witness ==
    /\ DOMAIN parser.par = {"p", "q"}
    /\ parser.par["p"].target.kind = "array"
    /\ parser.par["p"].limit = 2
    /\ parser.par["q"].target.kind = "map"
    /\ parser.par["q"].limit = 0


----------------------------------------------------------------------------
(* Parse calls with values that do not convert and with symbols whose      *)
(* names and texts hold special characters.                                *)

\* the number of Parse calls made on the parser with an integer
MaxText == 3

\* i is an integer; s is an optional string
TextParser ==
    Opt(Def(Def(NewParser, "i", tInt("i")), "s", tString("s")), "s")

TextInputs == {"", "i=7", "i=k", "$a.=x", "$a=x", "$a=[b c]", "$a=[[b]]",
               "$a=\\\\", "$a=\\]", "s=$[a]", "reset=$a", "i=7 s=$[a]"}

InitText ==
    /\ parser = TextParser
    /\ input = ""
    /\ err = NoErr
    /\ res = NoRes
    /\ nparse = 0

NextText == nparse < MaxText /\ \E in \in TextInputs : ParseAct(in)

SpecText == InitText /\ [][NextText]_vars

\* C35, as stated: every name in the symbol table is made of letters,
\* digits, hyphens and underscores.
C35_SymbolNamesValid ==
    \A sym \in DOMAIN parser.symbols.table : validate(sym)

\* C36, as stated: a Parse call that fails with the conversion of the one
\* value it has for i leaves the counter of i as it was, and a Parse call on
\* no input reports the mandatory i as not set as long as no value was
\* converted for it.
C36_CountsStoredValues ==
    [][nparse' = nparse + 1 =>
        /\ (input' = "i=k" /\ err'.kind = "invalid syntax")
              => parser'.par["i"].count = parser.par["i"].count
        /\ (input' = "" /\ parser.par["i"].target.val = 0)
              => err' = decorate(Err("mandatory parameter not set", ""), "i")]_vars


\* the text has no symbol reference: no symbol prefix followed by an open
\* quote
NoReference(t) == ~Contains(t, "$[")

RECURSIVE depths(_, _, _)
\* the quotes of t from position i on are balanced, d being the number of
\* quotes that are open
depths(t, i, d) ==
    IF i > Len(t) THEN d = 0
    ELSE IF Ch(t, i) = "[" THEN depths(t, i + 1, d + 1)
    ELSE IF Ch(t, i) = "]" THEN d > 0 /\ depths(t, i + 1, d - 1)
    ELSE depths(t, i + 1, d)

\* the text has no symbol prefix and no escape character, and its quotes
\* are balanced
PlainText(t) ==
    /\ \A k \in 1..Len(t) : Ch(t, k) \notin {"$", "\\"}
    /\ depths(t, 1, 0)

\* the Parse call of this step is s=$[a], made when the symbol a is in the
\* table
RefersToA ==
    /\ nparse' = nparse + 1
    /\ input' = "s=$[a]"
    /\ "a" \in DOMAIN parser.symbols.table

\* the Parse call of this step gave s the text of a
InsertedText ==
    /\ parser'.par["s"].target.val = parser.symbols.table["a"].s
    /\ parser'.par["s"].count = parser.par["s"].count + 1
    /\ reachedEnd(err')

\* C38, as stated: the reference to a symbol whose text has no symbol
\* reference gives s exactly that text.
C38_InsertsStoredText ==
    [][(RefersToA /\ NoReference(parser.symbols.table["a"].s))
          => InsertedText]_vars

\* C38, amended: the reference to a symbol whose text has no symbol prefix,
\* no escape character and only balanced quotes gives s exactly that text.
C38_InsertsPlainText ==
    [][(RefersToA /\ PlainText(parser.symbols.table["a"].s)) => InsertedText]_vars

\* s got the text of a, which has a space, from a reference
C38_Witness ==
    /\ input = "s=$[a]"
    /\ "a" \in DOMAIN parser.symbols.table
    /\ parser.symbols.table["a"].s = "b c"
    /\ parser.par["s"].target.val = "b c"
    /\ reachedEnd(err)


----------------------------------------------------------------------------
(* The name-value extractor on texts with quotes, escapes and references,  *)
(* called as Parser.parse calls it.                                        *)

\* the longest text given to the extractor that parse drives
MaxScanLen == 4

\* the symbol a is defined as k, the symbol b as an escape character, which
\* get cannot scan
ScanParser ==
    [NewParser EXCEPT
        !.symbols = put(NewConfig, put(NewConfig, newSymtab, "$a", "k"),
                        "$b", "\\")]

\* res holds the extractor and what it returned so far
InitScan ==
    /\ input \in TextsUpTo(MaxScanLen)
    /\ parser = ScanParser
    /\ res = [nvp |-> newNameValParser(ScanParser, input), pairs |-> <<>>]
    /\ err = NoErr
    /\ nparse = 0

\* the loop of parse: nvp.next() is called until it returns an error or
\* neither a name nor a value
ExtractAct ==
    /\ err = NoErr
    /\ IF res.pairs = <<>> THEN TRUE
       ELSE ~res.pairs[Len(res.pairs)].value.nil
    /\ NextPairReturns(next(res.nvp, parser.symbols))

SpecScan == InitScan /\ [][ExtractAct]_vars

\* the panics of the tokenizer
PanicKinds ==
    {"Next() called after an error", "Next() called on non-empty stack",
     "bug in scan"}

\* C39: no call of next ends in a panic of the tokenizer; when next returns
\* without an error the stack of the tokenizer is empty; when the stack is
\* not empty next has returned an error, the top of the stack is tsError,
\* and next is not called again.
C39_NextNeverPanics ==
    [][/\ err = NoErr
       /\ err'.kind \notin PanicKinds
       /\ err' = NoErr => res'.nvp.t.stack = <<>>
       /\ res'.nvp.t.stack # <<>> =>
             /\ top(res'.nvp.t.stack) = tsError
             /\ err' # NoErr]_vars

\* the tokenizer met a close quote where the value of a was expected, after
\* it had returned a string and a separator
C39_Witness ==
    /\ input = "a=]"
    /\ Len(res.pairs) = 1
    /\ err.kind = "premature close quote"
    /\ top(res.nvp.t.stack) = tsError


----------------------------------------------------------------------------
(* Parse calls that meet cycles of symbols and cycles of included files.   *)

\* the number of Parse calls made on the parser that meets cycles
MaxCycle == 3

CycleInputs == {"$a=$[b]", "$b=$[a]", "$b=x", "s=$[a]", "s=$[b]", "reset=$a",
                "reset=$b", "include=p", "include=q", "include=k"}

InitCycle ==
    /\ parser = OperParser(FALSE)
    /\ input = ""
    /\ err = NoErr
    /\ res = NoRes
    /\ nparse = 0

NextCycle == nparse < MaxCycle /\ \E in \in CycleInputs : ParseAct(in)

SpecCycle == InitCycle /\ [][NextCycle]_vars

\* C40: when Parse has returned, no symbol is left in the cycle detector of
\* the symbol table and no path in that of the parser; a Parse call returns
\* the cycle error of symbols only when a symbol its input refers to leads
\* to a symbol that is met again, and the cycle error of files only for the files
\* p and q, which include each other, whatever calls failed before.
C40_CycleSetsEmpty ==
    [][nparse' = nparse + 1 =>
        /\ parser'.symbols.cycle = {}
        /\ parser'.cycle = {}
        /\ isCycleError(err') =>
              \E sym \in Refs(input') \cap DOMAIN table :
                  CycleFrom(table, sym)
        /\ (input' = "s=$[b]" /\ "b" \in DOMAIN table /\ table["b"].s = "x")
              => (err' = NoErr /\ StringOf(parser', "s") = "x")
        /\ err'.kind = Cyclical <=> input' \in {"include=p", "include=q"}
        /\ input' = "include=k" => (err' = NoErr /\ StringOf(parser', "s") = "k")
      ]_vars

\* the third Parse call met a, which refers to itself, and returned the
\* cycle error, and both cycle detectors are empty
C40_Witness ==
    /\ nparse = 3
    /\ input = "s=$[a]"
    /\ isCycleError(err)
    /\ "a" \in DOMAIN table /\ table["a"].s = "$[a]"
    /\ parser.symbols.cycle = {}
    /\ parser.cycle = {}

====
